---- MODULE Spec2Model ----
(***************************************************************************)
(* Driftwarden: one-directional MySQL sync (remote, read-only -> local).   *)
(* Model of the data diff planner (src/src/diff/data-diff.js), the change  *)
(* executor (src/src/executor/change-executor.js), the local writer        *)
(* (src/src/db/local-writer.js), the remote reader (remote-reader, kept as *)
(* src/unnamed/part_005) and the retry loop (src/src/utils/retry.js).      *)
(***************************************************************************)
EXTENDS Integers, Sequences, FiniteSets, TLC

VARIABLES
    schema,          \* [pk, remoteCols, localCols, localExists]: key and columns of the tables
    remote,          \* rows of the remote table "t1", in clustered (primary key) order
    local,           \* local store: table name -> rows, in clustered order
    opts,            \* options of diffTableData / executeSync
    round,           \* 1: first diff, 2: diff after executeSync
    pc,              \* position of the diff (diffTableData and the strategy it selected)
    strategy,        \* the strategy function diffTableData dispatched to
    diff,            \* the DataDiff under construction / returned
    offset,          \* offset of the chunked read in progress
    remoteKeysSeen,  \* streaming: key strings seen from remote; in-memory: seenLocalKeys
    localIndex,      \* in-memory diff: Map key string -> local row (insertion ordered)
    firstDiff,       \* the diff returned in round 1
    probes,          \* schema and timestamp methods the diff called on reader and writer
    xpc,             \* position of executeSync
    schemaDiffs,     \* approved schema diffs handed to executeSync
    dataDiffs,       \* approved data diffs handed to executeSync
    faults,          \* how many more attempts on the local connection may fail
    ti,              \* index of the diff (schema or data) being applied
    ix,              \* index inside the current phase (statement, batch start, row)
    tableResult,     \* tableResult of the table being applied
    results,         \* result object of executeSync
    calls,           \* calls made on the localWriter handle, in order
    tx,              \* open transaction: [open, snapshot]
    pendingErr,      \* error caught by the table's catch block, to rethrow after rollback
    stmt,            \* statement handed to RemoteReader.query
    rres,            \* how RemoteReader.query ended: "pending", "rows", "refused", "error"
    conn,            \* statements that reached the remote connection, in order
    retry,           \* a call of withRetry: its options, fn, and how far it got
    backoff,         \* a call of calculateBackoff: its arguments and its result
    breaker,         \* a call of executeWithCircuitBreaker: options, operations, results
    fanout,          \* a call of compareAllData: tables, the diffs collected so far
    confirm,         \* a call of interactiveConfirm: diffs, options, prompts, result
    sdiff,           \* a call of diffTableSchema and generateSchemaSQL on its result
    reader,          \* a chunked read of a table: offset, chunks yielded, fetches made
    cmp              \* a call of rowsEqual: the two row objects and the result

diffVars == <<schema, remote, opts, round, pc, strategy, diff, offset,
              remoteKeysSeen, localIndex, firstDiff, probes>>
execVars == <<xpc, schemaDiffs, dataDiffs, faults, ti, ix, tableResult, results,
              calls, tx, pendingErr>>
remoteVars == <<stmt, rres, conn>>
callVars == <<fanout, confirm, sdiff, reader, cmp>>
utilVars == <<retry, backoff, breaker, callVars>>
vars == <<diffVars, local, execVars, remoteVars, utilVars>>

----------------------------------------------------------------------------
(* Bounds of the model.                                                    *)

MaxId == 2          \* ids of the keyed tables are 1..MaxId
MaxNoPkRows == 2    \* rows of the key-less table
MaxChunk == 2       \* chunk sizes 1..MaxChunk
MaxAttemptsBound == 2   \* retryConfig.maxAttempts ranges over 1..MaxAttemptsBound
MaxIns == 3         \* rows to insert in a diff handed to the executor
MaxUpd == 1         \* rows to update
MaxDel == 1         \* rows to delete
MaxBatch == 2       \* batch sizes 1..MaxBatch
MaxStmts == 2       \* statements of a schema diff
MaxFaults == 2          \* attempts on the local connection that fail in one run
MaxTokens == 3      \* tokens of a statement handed to the remote reader

----------------------------------------------------------------------------
(* JavaScript values held in row objects.  A value is a tagged record;     *)
(* n carries a number or a Date's epoch, s carries text.                   *)

Null == [t |-> "null", n |-> 0, s |-> ""]
Undefined == [t |-> "undefined", n |-> 0, s |-> ""]
Num(k) == [t |-> "num", n |-> k, s |-> ""]
Str(x) == [t |-> "str", n |-> 0, s |-> x]
Date(k) == [t |-> "date", n |-> k, s |-> ""]

\* row[col]: a missing property reads as undefined
Get(row, col) == IF col \in DOMAIN row THEN row[col] ELSE Undefined

\* Date.prototype.toISOString
toISOString(v) == "1970-01-01T00:00:0" \o ToString(v.n) \o ".000Z"

\* String(val)
String(v) ==
    CASE v.t = "null" -> "null"
      [] v.t = "undefined" -> "undefined"
      [] v.t = "num" -> ToString(v.n)
      [] v.t = "date" -> "Thu Jan 01 1970 00:00:0" \o ToString(v.n) \o " GMT+0000"
      [] OTHER -> v.s

\* property order of row objects (column order of the result set)
ColOrder == <<"id", "k1", "k2", "name", "updated_at", "extra">>
\* Array.prototype.sort() order of the same names
ColSorted == <<"extra", "id", "k1", "k2", "name", "updated_at">>

ObjectKeys(row) == SelectSeq(ColOrder, LAMBDA c : c \in DOMAIN row)
SortedKeys(row) == SelectSeq(ColSorted, LAMBDA c : c \in DOMAIN row)

Range(s) == {s[i] : i \in 1..Len(s)}
Min(a, b) == IF a < b THEN a ELSE b

----------------------------------------------------------------------------
(* data-diff.js helpers                                                    *)

RECURSIVE JoinFrom(_, _, _)
JoinFrom(row, primaryKey, i) ==
    IF i > Len(primaryKey) THEN ""
    ELSE IF i = Len(primaryKey) THEN String(Get(row, primaryKey[i]))
    ELSE String(Get(row, primaryKey[i])) \o "|" \o JoinFrom(row, primaryKey, i + 1)

\* primaryKey.map((col) => String(row[col])).join('|')
buildPrimaryKeyValue(row, primaryKey) == JoinFrom(row, primaryKey, 1)

\* null for null/undefined, otherwise a string; a normalized value is Null or Str(_)
normalizeValue(val) ==
    IF val.t = "null" \/ val.t = "undefined" THEN Null
    ELSE IF val.t = "date" THEN Str(toISOString(val))
    ELSE Str(String(val))

rowsEqual(row1, row2) ==
    LET keys1 == SortedKeys(row1)
        keys2 == SortedKeys(row2)
    IN  /\ Len(keys1) = Len(keys2)
        /\ \A i \in 1..Len(keys1) :
              /\ keys1[i] = keys2[i]
              /\ normalizeValue(Get(row1, keys1[i])) = normalizeValue(Get(row2, keys2[i]))

getRowChanges(localRow, remoteRow) ==
    LET ks == SelectSeq(ObjectKeys(remoteRow),
                 LAMBDA c : normalizeValue(Get(localRow, c)) # normalizeValue(Get(remoteRow, c)))
    IN  [i \in 1..Len(ks) |->
            [column |-> ks[i], from |-> Get(localRow, ks[i]), to |-> Get(remoteRow, ks[i])]]

----------------------------------------------------------------------------
(* The MySQL tables behind the reader and the writer.                      *)

\* collation order of the text values that occur as keys
StrOrder == <<"a", "a|b", "b", "b|c", "c">>
StrRank(x) == IF \E i \in 1..Len(StrOrder) : StrOrder[i] = x
              THEN CHOOSE i \in 1..Len(StrOrder) : StrOrder[i] = x
              ELSE 0

\* ORDER BY rank of a value: NULL first, then by value
SqlRank(v) ==
    CASE v.t = "num" -> v.n
      [] v.t = "date" -> v.n
      [] v.t = "str" -> StrRank(v.s)
      [] OTHER -> -1

\* SQL '=' : never true on NULL
SqlEq(a, b) == a.t \notin {"null", "undefined"} /\ b.t \notin {"null", "undefined"} /\ a = b

\* ORDER BY col: the rows by the rank of row[col], rows of equal rank in
\* stored order; the row at place p is the one with p - 1 rows before it
OrderBy(rows, col) ==
    LET rank == [i \in 1..Len(rows) |-> SqlRank(Get(rows[i], col))]
        place == [i \in 1..Len(rows) |->
                    1 + Cardinality({j \in 1..Len(rows) :
                                        \/ rank[j] < rank[i]
                                        \/ rank[j] = rank[i] /\ j < i})]
    IN  [p \in 1..Len(rows) |-> rows[CHOOSE i \in 1..Len(rows) : place[i] = p]]

\* SELECT * FROM ?? [ORDER BY ??] LIMIT ? OFFSET ?   (orderBy = "" : none)
getTableData(rows, limit, off, orderBy) ==
    LET ordered == IF orderBy = "" THEN rows ELSE OrderBy(rows, orderBy)
    IN  SubSeq(ordered, off + 1, Min(off + limit, Len(ordered)))

\* SELECT COUNT(*) as count FROM ??
getRowCount(rows) == Len(rows)

\* the key tuple of a row
KeyOf(row, primaryKey) == [i \in 1..Len(primaryKey) |-> Get(row, primaryKey[i])]

\* WHERE k1 = ? AND k2 = ? ...
KeyMatches(row, primaryKey, keyRow) ==
    \A i \in 1..Len(primaryKey) : SqlEq(Get(row, primaryKey[i]), Get(keyRow, primaryKey[i]))

batchLookupByPK(localRows, pk, remoteRows) ==
    IF Len(remoteRows) = 0 THEN <<>>
    ELSE IF Len(pk) = 1
    THEN SelectSeq(localRows,
            LAMBDA r : \E i \in 1..Len(remoteRows) : SqlEq(Get(r, pk[1]), Get(remoteRows[i], pk[1])))
    ELSE SelectSeq(localRows,
            LAMBDA r : \E i \in 1..Len(remoteRows) : KeyMatches(r, pk, remoteRows[i]))

\* DESCRIBE ?? -> hasUpdatedAt
checkTimestampColumns(cols) ==
    [hasUpdatedAt |-> "updated_at" \in cols,
     hasCreatedAt |-> "created_at" \in cols,
     updatedAtColumn |-> "updated_at"]

\* SELECT MAX(??) as maxTs FROM ?? ; result?.maxTs || null
getMaxTimestamp(rows, column) ==
    LET ts == {Get(rows[i], column) : i \in 1..Len(rows)} \ {Null, Undefined}
    IN  IF ts = {} THEN Null
        ELSE CHOOSE v \in ts : \A w \in ts : w.n <= v.n

\* SELECT * FROM ?? WHERE ?? > ? ORDER BY ?? ASC
getModifiedRows(rows, timestampColumn, since) ==
    OrderBy(SelectSeq(rows,
                LAMBDA r : Get(r, timestampColumn).t = "date"
                           /\ Get(r, timestampColumn).n > since.n),
            timestampColumn)

----------------------------------------------------------------------------
(* JavaScript Map keyed by primary-key string: insertion ordered, set()    *)
(* on an existing key overwrites in place.                                 *)

MapHas(m, k) == \E i \in 1..Len(m) : m[i].key = k
MapGet(m, k) == m[CHOOSE i \in 1..Len(m) : m[i].key = k].row
MapSet(m, k, r) ==
    IF MapHas(m, k)
    THEN [i \in 1..Len(m) |-> IF m[i].key = k THEN [key |-> k, row |-> r] ELSE m[i]]
    ELSE Append(m, [key |-> k, row |-> r])

\* for (const row of rows) index.set(buildPrimaryKeyValue(row, pk), row)
RECURSIVE IndexRows(_, _, _)
IndexRows(m, rows, pk) ==
    IF rows = <<>> THEN m
    ELSE IndexRows(MapSet(m, buildPrimaryKeyValue(Head(rows), pk), Head(rows)), Tail(rows), pk)

\* getTableDataChunked consumed to exhaustion on a table that does not change:
\* the concatenation of the chunks it yields
RECURSIVE ReadAllChunked(_, _, _, _)
ReadAllChunked(rows, chunkSize, orderBy, off) ==
    LET chunk == getTableData(rows, chunkSize, off, orderBy)
    IN  IF Len(chunk) = chunkSize
        THEN chunk \o ReadAllChunked(rows, chunkSize, orderBy, off + Len(chunk))
        ELSE chunk

----------------------------------------------------------------------------
(* The DataDiff object.  Fields a strategy does not set are kept with the  *)
(* value JavaScript reads for them: incremental "absent", fullReplace      *)
(* FALSE, empty lists.                                                     *)

EmptyStats == [remoteRows |-> 0, localRows |-> 0, inserts |-> 0, updates |-> 0,
               deletes |-> 0, scannedRows |-> 0]

NewDiff(pk, hasTs) ==
    [tableName |-> "t1", primaryKey |-> pk, hasTimestamps |-> hasTs, incremental |-> "absent",
     fullReplace |-> FALSE, toInsert |-> <<>>, toUpdate |-> <<>>, toDelete |-> <<>>,
     remoteData |-> <<>>, stats |-> EmptyStats, warned |-> FALSE]

NoDiff == NewDiff(<<>>, FALSE)

\* primaryKey || schema.primaryKey
EffectivePk == IF opts.primaryKey.given THEN opts.primaryKey.cols ELSE schema.pk

\* one remote row against the local row found for its key (or none)
Classify(d, remoteRow, found, localRow) ==
    IF ~found
    THEN [d EXCEPT !.toInsert = Append(@, remoteRow), !.stats.inserts = @ + 1]
    ELSE IF ~rowsEqual(remoteRow, localRow)
    THEN [d EXCEPT !.toUpdate = Append(@, [remote |-> remoteRow, local |-> localRow,
                                           changes |-> getRowChanges(localRow, remoteRow)]),
                   !.stats.updates = @ + 1]
    ELSE d

\* streamingTableDiff, lines 108-131: the rows of one remote chunk
RECURSIVE StreamCompare(_, _, _, _)
StreamCompare(d, chunk, index, pk) ==
    IF chunk = <<>> THEN d
    ELSE LET remoteRow == Head(chunk)
             key == buildPrimaryKeyValue(remoteRow, pk)
             counted == IF d.stats.remoteRows = 0
                        THEN [d EXCEPT !.stats.remoteRows = @ + 1] ELSE d
             found == MapHas(index, key)
         IN  StreamCompare(
                 Classify(counted, remoteRow, found, IF found THEN MapGet(index, key) ELSE remoteRow),
                 Tail(chunk), index, pk)

\* inMemoryTableDiff, lines 257-278
RECURSIVE InMemCompare(_, _, _, _)
InMemCompare(d, chunk, index, pk) ==
    IF chunk = <<>> THEN d
    ELSE LET remoteRow == Head(chunk)
             key == buildPrimaryKeyValue(remoteRow, pk)
             counted == [d EXCEPT !.stats.remoteRows = @ + 1]
             found == MapHas(index, key)
         IN  InMemCompare(
                 Classify(counted, remoteRow, found, IF found THEN MapGet(index, key) ELSE remoteRow),
                 Tail(chunk), index, pk)

ChunkKeys(chunk, pk) == {buildPrimaryKeyValue(chunk[i], pk) : i \in 1..Len(chunk)}

\* rows of a local chunk whose key string was not seen from remote
DeleteCandidates(rows, seen, pk) ==
    SelectSeq(rows, LAMBDA r : buildPrimaryKeyValue(r, pk) \notin seen)

AddDeletes(d, rows) ==
    [d EXCEPT !.toDelete = @ \o rows, !.stats.deletes = @ + Len(rows)]

T1 == "t1"
Tables == {"t1", "t2"}

----------------------------------------------------------------------------
(* diffTableData and its strategies                                        *)

DiffIdle == UNCHANGED <<schema, remote, opts, round, firstDiff>>

\* diffTableData, lines 23-56: the strategy for a key and the remote columns
SelectStrategy_IgnoresFlag(pk, timestamps) ==
    IF Len(pk) = 0 THEN "fullTableDiff"
    ELSE IF /\ timestamps.hasUpdatedAt
            /\ schema.localExists
            /\ checkTimestampColumns(schema.localCols).hasUpdatedAt
         THEN "incrementalDiff"
    ELSE IF opts.streamingMode THEN "streamingTableDiff"
    ELSE "inMemoryTableDiff"

SelectStrategy(pk, timestamps) ==
    IF Len(pk) = 0 THEN "fullTableDiff"
    ELSE IF /\ opts.useIncremental /\ timestamps.hasUpdatedAt
            /\ schema.localExists
            /\ checkTimestampColumns(schema.localCols).hasUpdatedAt
         THEN "incrementalDiff"
    ELSE IF opts.streamingMode THEN "streamingTableDiff"
    ELSE "inMemoryTableDiff"

\* diffTableData, lines 20-36: the methods called on the way to a strategy
SelectionProbes(pk, timestamps) ==
    {"getTableSchema"}
      \cup (IF Len(pk) = 0 THEN {} ELSE {"remote.checkTimestampColumns"})
      \cup (IF Len(pk) > 0 /\ opts.useIncremental /\ timestamps.hasUpdatedAt
            THEN {"tableExists"} ELSE {})
      \cup (IF Len(pk) > 0 /\ opts.useIncremental /\ timestamps.hasUpdatedAt
               /\ schema.localExists
            THEN {"local.checkTimestampColumns"} ELSE {})

\* diffTableData, lines 16-57: strategy selection
DiffTableData ==
    /\ pc = "start"
    /\ LET pk == EffectivePk
           timestamps == checkTimestampColumns(schema.remoteCols)
       IN  /\ strategy' = SelectStrategy(pk, timestamps)
           /\ probes' = SelectionProbes(pk, timestamps)
    /\ pc' = strategy'
    /\ diff' = NoDiff
    /\ offset' = 0
    /\ remoteKeysSeen' = {}
    /\ localIndex' = <<>>
    /\ DiffIdle
    /\ UNCHANGED <<local, execVars, remoteVars, utilVars>>

\* typeof remoteReader.getRowCount === 'function': RemoteReader has the
\* method; schema.getRowCount = FALSE stands for a reader without it
HasRowCount == IF "getRowCount" \in DOMAIN schema THEN schema.getRowCount ELSE TRUE

\* streamingTableDiff, lines 82-84: the remote count taken upfront, or the 0
\* the diff object starts with
upfrontRemoteRows == IF HasRowCount THEN getRowCount(remote) ELSE 0

\* streamingTableDiff, lines 64-91: the diff object and the row counts
StreamingStart ==
    /\ pc = "streamingTableDiff"
    /\ LET ts == checkTimestampColumns(schema.remoteCols)
           d0 == NewDiff(EffectivePk, ts.hasUpdatedAt \/ ts.hasCreatedAt)
       IN  IF schema.localExists
           THEN /\ diff' = [d0 EXCEPT !.stats.remoteRows = upfrontRemoteRows,
                                      !.stats.localRows = getRowCount(local[T1])]
                /\ pc' = "streamRemote"
           ELSE /\ diff' = d0
                /\ pc' = "thrown"
    /\ offset' = 0
    /\ remoteKeysSeen' = {}
    /\ UNCHANGED localIndex
    /\ UNCHANGED strategy
    /\ DiffIdle
    /\ UNCHANGED probes
    /\ UNCHANGED <<local, execVars, remoteVars, utilVars>>

\* one turn of the for-await loop, lines 95-137, over getTableDataChunked
StreamRemoteChunk ==
    /\ pc = "streamRemote"
    /\ LET pk == EffectivePk
           rows == getTableData(remote, opts.chunkSize, offset, pk[1])
           localRows == batchLookupByPK(local[T1], pk, rows)
           index == IndexRows(<<>>, localRows, pk)
           seen == remoteKeysSeen \cup ChunkKeys(rows, pk)
           d1 == StreamCompare(diff, rows, index, pk)
           hasMore == Len(rows) = opts.chunkSize
       IN  /\ remoteKeysSeen' = seen
           /\ IF hasMore
              THEN /\ diff' = d1
                   /\ offset' = offset + Len(rows)
                   /\ pc' = "streamRemote"
              ELSE /\ diff' = IF d1.stats.remoteRows = 0
                              THEN [d1 EXCEPT !.stats.remoteRows = Cardinality(seen)]
                              ELSE d1
                   /\ offset' = 0
                   /\ pc' = "streamLocal"
    /\ UNCHANGED <<localIndex, strategy>>
    /\ DiffIdle
    /\ UNCHANGED probes
    /\ UNCHANGED <<local, execVars, remoteVars, utilVars>>

\* one turn of the local delete scan, lines 145-162
StreamLocalChunk ==
    /\ pc = "streamLocal"
    /\ LET pk == EffectivePk
           localChunk == getTableData(local[T1], opts.chunkSize, offset, pk[1])
       IN  /\ diff' = AddDeletes(diff, DeleteCandidates(localChunk, remoteKeysSeen, pk))
           /\ offset' = offset + Len(localChunk)
           /\ pc' = IF Len(localChunk) = opts.chunkSize THEN "streamLocal" ELSE "done"
    /\ UNCHANGED <<remoteKeysSeen, localIndex, strategy>>
    /\ DiffIdle
    /\ UNCHANGED probes
    /\ UNCHANGED <<local, execVars, remoteVars, utilVars>>

\* inMemoryTableDiff, lines 210-230
InMemoryStart ==
    /\ pc = "inMemoryTableDiff"
    /\ LET ts == checkTimestampColumns(schema.remoteCols)
       IN  diff' = NewDiff(EffectivePk, ts.hasUpdatedAt \/ ts.hasCreatedAt)
    /\ pc' = IF schema.localExists THEN "inMemLocal" ELSE "thrown"
    /\ offset' = 0
    /\ remoteKeysSeen' = {}
    /\ localIndex' = <<>>
    /\ UNCHANGED strategy
    /\ DiffIdle
    /\ UNCHANGED probes
    /\ UNCHANGED <<local, execVars, remoteVars, utilVars>>

\* one turn of the local index loop, lines 232-249
InMemoryLocalChunk ==
    /\ pc = "inMemLocal"
    /\ LET pk == EffectivePk
           localRows == getTableData(local[T1], opts.chunkSize, offset, pk[1])
           index == IndexRows(localIndex, localRows, pk)
       IN  /\ localIndex' = index
           /\ IF Len(localRows) = opts.chunkSize
              THEN /\ offset' = offset + Len(localRows)
                   /\ pc' = "inMemLocal"
                   /\ diff' = diff
              ELSE /\ offset' = 0
                   /\ pc' = "inMemRemote"
                   /\ diff' = [diff EXCEPT !.stats.localRows = Len(index)]
    /\ UNCHANGED <<remoteKeysSeen, strategy>>
    /\ DiffIdle
    /\ UNCHANGED probes
    /\ UNCHANGED <<local, execVars, remoteVars, utilVars>>

\* one turn of the remote loop, lines 256-279, and after the last one the
\* delete candidates, lines 282-287
InMemoryRemoteChunk ==
    /\ pc = "inMemRemote"
    /\ LET pk == EffectivePk
           rows == getTableData(remote, opts.chunkSize, offset, pk[1])
           seen == remoteKeysSeen \cup ChunkKeys(rows, pk)
           d1 == InMemCompare(diff, rows, localIndex, pk)
           unseen == SelectSeq(localIndex, LAMBDA e : e.key \notin seen)
       IN  /\ remoteKeysSeen' = seen
           /\ IF Len(rows) = opts.chunkSize
              THEN /\ diff' = d1
                   /\ offset' = offset + Len(rows)
                   /\ pc' = "inMemRemote"
              ELSE /\ diff' = AddDeletes(d1, [i \in 1..Len(unseen) |-> unseen[i].row])
                   /\ offset' = 0
                   /\ pc' = "done"
    /\ UNCHANGED <<localIndex, strategy>>
    /\ DiffIdle
    /\ UNCHANGED probes
    /\ UNCHANGED <<local, execVars, remoteVars, utilVars>>

\* fullTableDiff, lines 303-331: the diff object for the rows read and the local count
fullTableDiff_NoInserts(data, localCount) ==
    [NewDiff(<<>>, FALSE) EXCEPT !.fullReplace = TRUE,
                                 !.remoteData = data,
                                 !.stats.remoteRows = Len(data),
                                 !.stats.localRows = localCount]

fullTableDiff(data, localCount) ==
    [NewDiff(<<>>, FALSE) EXCEPT !.fullReplace = TRUE,
                                 !.remoteData = data,
                                 !.stats.remoteRows = Len(data),
                                 !.stats.localRows = localCount,
                                 !.stats.inserts = Len(data)]

\* fullTableDiff, lines 300-332; the count query throws when there is no local table
FullTableDiff ==
    /\ pc = "fullTableDiff"
    /\ LET data == ReadAllChunked(remote, opts.chunkSize, "", 0)
       IN  IF schema.localExists
           THEN /\ diff' = fullTableDiff(data, getRowCount(local[T1]))
                /\ pc' = "done"
           ELSE /\ diff' = [fullTableDiff(data, 0) EXCEPT !.stats.inserts = 0]
                /\ pc' = "thrown"
    /\ UNCHANGED <<offset, remoteKeysSeen, localIndex, strategy>>
    /\ DiffIdle
    /\ UNCHANGED probes
    /\ UNCHANGED <<local, execVars, remoteVars, utilVars>>

\* fullPrimaryKeyDiff, lines 451-481
fullPrimaryKeyDiff(pk) ==
    LET rows == ReadAllChunked(remote, opts.chunkSize, pk[1], 0)
    IN  [NewDiff(pk, TRUE) EXCEPT !.incremental = "false",
                                  !.toInsert = rows,
                                  !.stats.inserts = Len(rows),
                                  !.stats.remoteRows = Len(rows)]

\* the point lookup of incrementalDiff, lines 401-410: the first local row with the key
PointLookup(localRows, pk, remoteRow) ==
    SelectSeq(localRows, LAMBDA r : KeyMatches(r, pk, remoteRow))

\* incrementalDiff, lines 397-426
RECURSIVE IncrementalCompare(_, _, _, _)
IncrementalCompare(d, modifiedRows, localRows, pk) ==
    IF modifiedRows = <<>> THEN d
    ELSE LET remoteRow == Head(modifiedRows)
             hit == PointLookup(localRows, pk, remoteRow)
             found == Len(hit) > 0
         IN  IncrementalCompare(
                 Classify(d, remoteRow, found, IF found THEN hit[1] ELSE remoteRow),
                 Tail(modifiedRows), localRows, pk)

\* incrementalDiff, lines 345-446
IncrementalDiff ==
    /\ pc = "incrementalDiff"
    /\ LET pk == EffectivePk
           col == checkTimestampColumns(schema.remoteCols).updatedAtColumn
           localMaxTs == getMaxTimestamp(local[T1], col)
           d0 == [NewDiff(pk, TRUE) EXCEPT !.incremental = "true",
                                           !.stats.localRows = getRowCount(local[T1])]
           modifiedRows == getModifiedRows(remote, col, localMaxTs)
           d1 == [d0 EXCEPT !.stats.scannedRows = Len(modifiedRows)]
           d2 == [IncrementalCompare(d1, modifiedRows, local[T1], pk)
                     EXCEPT !.stats.remoteRows = getRowCount(remote)]
       IN  /\ diff' = IF localMaxTs = Null THEN fullPrimaryKeyDiff(pk)
                      ELSE IF Len(modifiedRows) = 0 THEN d1
                      ELSE [d2 EXCEPT !.warned = d2.stats.localRows > d2.stats.remoteRows]
           /\ probes' = probes \cup {"getMaxTimestamp"}
                           \cup (IF localMaxTs = Null THEN {} ELSE {"getModifiedRows"})
    /\ pc' = "done"
    /\ UNCHANGED <<offset, remoteKeysSeen, localIndex, strategy>>
    /\ DiffIdle
    /\ UNCHANGED <<local, execVars, remoteVars, utilVars>>

----------------------------------------------------------------------------
(* The local MySQL store as the writer's statements change it.             *)

\* lexicographic order of two rows on the key columns (clustered index order)
RECURSIVE KeyBefore(_, _, _, _)
KeyBefore(a, b, pk, i) ==
    IF i > Len(pk) THEN FALSE
    ELSE IF SqlRank(Get(a, pk[i])) < SqlRank(Get(b, pk[i])) THEN TRUE
    ELSE IF SqlRank(Get(a, pk[i])) > SqlRank(Get(b, pk[i])) THEN FALSE
    ELSE KeyBefore(a, b, pk, i + 1)

\* a row as stored: the table's columns, NULL where the statement names none
Stored(row, cols) == [c \in cols |-> IF c \in DOMAIN row THEN row[c] ELSE Null]

RECURSIVE PlaceRow(_, _, _)
PlaceRow(rows, row, pk) ==
    IF Len(pk) = 0 \/ rows = <<>> THEN rows \o <<row>>
    ELSE IF KeyBefore(row, Head(rows), pk, 1) THEN <<row>> \o rows
    ELSE <<Head(rows)>> \o PlaceRow(Tail(rows), row, pk)

RECURSIVE PlaceRows(_, _, _, _)
PlaceRows(rows, batch, pk, cols) ==
    IF batch = <<>> THEN rows
    ELSE PlaceRows(PlaceRow(rows, Stored(Head(batch), cols), pk), Tail(batch), pk, cols)

\* INSERT INTO ?? (...) VALUES (...), (...): refused on an unknown column or a
\* duplicate primary key, and then it inserts nothing
InsertAccepted(rows, batch, pk, cols) ==
    /\ \A i \in 1..Len(batch) : DOMAIN batch[i] \subseteq cols
    /\ Len(pk) > 0 =>
          /\ \A i \in 1..Len(batch), j \in 1..Len(rows) : KeyOf(batch[i], pk) # KeyOf(rows[j], pk)
          /\ \A i, j \in 1..Len(batch) : i # j => KeyOf(batch[i], pk) # KeyOf(batch[j], pk)

\* UPDATE ?? SET c = ?, ... WHERE k = ? AND ...
SetColumns(row, primaryKey) == DOMAIN row \ Range(primaryKey)
UpdateAccepted(row, primaryKey, cols) == SetColumns(row, primaryKey) \subseteq cols
UpdatedRows(rows, row, primaryKey) ==
    [i \in 1..Len(rows) |->
        IF KeyMatches(rows[i], primaryKey, row)
        THEN [c \in DOMAIN rows[i] |->
                 IF c \in SetColumns(row, primaryKey) THEN row[c] ELSE rows[i][c]]
        ELSE rows[i]]

\* DELETE FROM ?? WHERE k = ? AND ...
DeletedRows(rows, keyRow, primaryKey) ==
    SelectSeq(rows, LAMBDA r : ~KeyMatches(r, primaryKey, keyRow))

----------------------------------------------------------------------------
(* retry.js: withRetry with shouldRetry = isRetryableError, as             *)
(* LocalWriter.execute and RemoteReader.query use it.                      *)

\* errors a connection attempt may raise
LockWait == [message |-> "Lock wait timeout exceeded; try restarting transaction",
             code |-> "ER_LOCK_WAIT_TIMEOUT"]
SyntaxError == [message |-> "You have an error in your SQL syntax", code |-> "ER_PARSE_ERROR"]
Refused == [message |-> "Statement refused by the local store", code |-> "ER_DUP_ENTRY"]
NoError == [message |-> "", code |-> ""]

Deadlock == [message |-> "Deadlock found when trying to get lock; try restarting transaction",
             code |-> "ER_LOCK_DEADLOCK"]
ConnReset == [message |-> "read failed", code |-> "ECONNRESET"]

\* the errors of the model whose message holds one of retryableMessages
\* (case-insensitive), or whose code is one of them
RetryableErrors == {LockWait, Deadlock, ConnReset}

isRetryableError_All(error) == TRUE
isRetryableError(error) == error \in RetryableErrors

\* what an attempt meets on the connection: "db" (the statement reaches the
\* store, which accepts or refuses it), or a connection-level error
ErrorOf(kind) == IF kind = "retryable" THEN LockWait
                 ELSE IF kind = "deadlock" THEN Deadlock
                 ELSE IF kind = "reset" THEN ConnReset
                 ELSE IF kind = "fatal" THEN SyntaxError ELSE Refused

\* the for loop of withRetry, lines 74-118, from attempt `attempt` on;
\* att[i] is what attempt i meets.  Result: [ok, sends, error]
RECURSIVE withRetry(_, _, _, _)
withRetry(att, accepted, maxAttempts, attempt) ==
    IF att[attempt] = "db" /\ accepted
    THEN [ok |-> TRUE, sends |-> attempt, error |-> NoError]
    ELSE LET error == ErrorOf(att[attempt])
         IN  IF ~isRetryableError(error) \/ attempt >= maxAttempts
             THEN [ok |-> FALSE, sends |-> attempt, error |-> error]
             ELSE withRetry(att, accepted, maxAttempts, attempt + 1)

\* LocalWriter.execute, lines 84-97
execute(att, accepted) == withRetry(att, accepted, opts.maxAttempts, 1)

\* what an attempt on the connection meets: the database answers ("db"), or
\* the attempt fails with a retryable or with another error
AttemptKinds == {"db", "retryable", "fatal"}

\* the attempts of one call: withRetry reads them up to the first that is not
\* retryable, so a run of retryable failures and what ends it name them all
Attempts ==
    {[i \in 1..opts.maxAttempts |-> IF i <= k THEN "retryable" ELSE e] :
        k \in 0..Min(faults, opts.maxAttempts), e \in AttemptKinds \ {"retryable"}}

\* the failed attempts among the first sends ones, taken from those left
Faulty(att, sends) == Cardinality({i \in 1..sends : att[i] # "db"})
Spend(n) == n <= faults /\ faults' = faults - n

\* beginTransaction, commit, rollback, executeSchema go to the connection directly:
\* one send, and whatever error it raises is thrown to the caller
DirectKinds == {"db", "fatal"}
DirectFault(kind) == IF kind = "db" THEN 0 ELSE 1
direct(kind) == IF kind = "db" THEN [ok |-> TRUE, sends |-> 1, error |-> NoError]
                ELSE [ok |-> FALSE, sends |-> 1, error |-> ErrorOf(kind)]

----------------------------------------------------------------------------
(* change-executor.js                                                      *)

FullReplaceBatch == 1000

NoSchemaResult == [ran |-> FALSE, success |-> TRUE, applied |-> <<>>, failed |-> <<>>,
                   errors |-> <<>>]
NoDataResult == [ran |-> FALSE, success |-> TRUE, tables |-> <<>>, totalInserts |-> 0,
                 totalUpdates |-> 0, totalDeletes |-> 0, errors |-> <<>>]
NewResults == [success |-> TRUE, schema |-> NoSchemaResult, data |-> NoDataResult]
NewTableResult(t) == [table |-> t, inserts |-> 0, updates |-> 0, deletes |-> 0,
                      errors |-> <<>>]
NoTx == [open |-> FALSE, snapshot |-> <<>>]

\* a call of a LocalWriter method: arg is the statement, the number of rows or
\* the index of the entry; data is what insertRows, updateRow and deleteRow are
\* handed
CallWith(op, t, r, arg, data) ==
    [op |-> op, table |-> t, ok |-> r.ok, sends |-> r.sends, arg |-> arg, data |-> data]
Call(op, t, r, arg) == CallWith(op, t, r, arg, <<>>)

ExecIdle == UNCHANGED <<schemaDiffs, dataDiffs>>

SchemaSkipped_Never(d) == FALSE

\* applySchemaChanges, line 24: diffs without statements are skipped
SchemaSkipped(d) == ~d.hasChanges \/ Len(d.sql) = 0

RECURSIVE NextSchemaDiff(_)
NextSchemaDiff(i) ==
    IF i > Len(schemaDiffs) THEN i
    ELSE IF SchemaSkipped(schemaDiffs[i]) THEN NextSchemaDiff(i + 1)
    ELSE i

NextPhase_DeletesFirst(d, from) ==
    IF from <= 1 /\ Len(d.toInsert) > 0 THEN "insert"
    ELSE IF from <= 2 /\ Len(d.toDelete) > 0 /\ Len(d.toUpdate) > 0 THEN "delete"
    ELSE IF from <= 2 /\ Len(d.toUpdate) > 0 THEN "update"
    ELSE IF from <= 3 /\ Len(d.toDelete) > 0 THEN "delete"
    ELSE "commit"

\* applyIncrementalChanges: the first non-empty phase at or after `from`
NextPhase(d, from) ==
    IF from <= 1 /\ Len(d.toInsert) > 0 THEN "insert"
    ELSE IF from <= 2 /\ Len(d.toUpdate) > 0 THEN "update"
    ELSE IF from <= 3 /\ Len(d.toDelete) > 0 THEN "delete"
    ELSE "commit"

\* executeSync, lines 231-240, entered with the schema phase behind it:
\* applyDataChanges starts (lines 58-77) or executeSync returns
EnterData(res) ==
    IF Len(dataDiffs) > 0
    THEN /\ results' = [res EXCEPT !.data = [NoDataResult EXCEPT !.ran = TRUE]]
         /\ xpc' = "begin"
         /\ ti' = 1
         /\ ix' = 1
         /\ tableResult' = NewTableResult(dataDiffs[1].tableName)
    ELSE /\ results' = res
         /\ xpc' = "returned"
         /\ ti' = 0
         /\ ix' = 0
         /\ tableResult' = NewTableResult("")

\* applySchemaChanges, lines 35-40: the catch block of a statement
SchemaFailure_KeepsSuccess(sch, entry, error) ==
    [sch EXCEPT !.failed = Append(@, [entry EXCEPT !.error = error.message]),
                !.errors = Append(@, error.message)]

SchemaFailure(sch, entry, error) ==
    [sch EXCEPT !.failed = Append(@, [entry EXCEPT !.error = error.message]),
                !.errors = Append(@, error.message),
                !.success = FALSE]

\* executeSync, lines 213-229, up to the first statement of the schema phase
ExecuteSync ==
    /\ xpc = "start"
    /\ calls' = <<>>
    /\ tx' = NoTx
    /\ pendingErr' = NoError
    /\ IF Len(schemaDiffs) > 0
       THEN LET first == NextSchemaDiff(1)
                res == [NewResults EXCEPT !.schema.ran = TRUE]
            IN  IF first > Len(schemaDiffs)
                THEN EnterData(res)
                ELSE /\ results' = res
                     /\ xpc' = "schema"
                     /\ ti' = first
                     /\ ix' = 1
                     /\ tableResult' = NewTableResult("")
       ELSE EnterData(NewResults)
    /\ ExecIdle
    /\ UNCHANGED faults
    /\ UNCHANGED <<local, diffVars, remoteVars, utilVars>>

\* applySchemaChanges, lines 30-41: one statement; after the last one lines
\* 44-48 and executeSync lines 224-229
ApplySchemaStatement ==
    /\ xpc = "schema"
    /\ \E kind \in DirectKinds :
         LET d == schemaDiffs[ti]
             r == direct(kind)
             entry == [table |-> d.tableName, sql |-> d.sql[ix], error |-> ""]
             sch == IF r.ok
                    THEN [results.schema EXCEPT !.applied = Append(@, entry)]
                    ELSE SchemaFailure(results.schema, entry, r.error)
             res == [results EXCEPT !.schema = sch]
             nextDiff == NextSchemaDiff(ti + 1)
         IN  /\ calls' = Append(calls, Call("executeSchema", d.tableName, r, d.sql[ix]))
             /\ Spend(DirectFault(kind))
             /\ IF ix < Len(d.sql)
                THEN /\ results' = res /\ xpc' = "schema" /\ ti' = ti /\ ix' = ix + 1
                     /\ UNCHANGED tableResult
                ELSE IF nextDiff <= Len(schemaDiffs)
                THEN /\ results' = res /\ xpc' = "schema" /\ ti' = nextDiff /\ ix' = 1
                     /\ UNCHANGED tableResult
                ELSE IF ~sch.success
                THEN /\ results' = [res EXCEPT !.success = FALSE]
                     /\ xpc' = "returned" /\ ti' = 0 /\ ix' = 0
                     /\ UNCHANGED tableResult
                ELSE EnterData(res)
    /\ UNCHANGED <<local, tx, pendingErr>>
    /\ ExecIdle
    /\ UNCHANGED <<diffVars, remoteVars, utilVars>>

\* applyDataChanges, lines 92-96: the run ends at the first failing table
StopRun_Never(failed) == FALSE

StopRun(failed) == failed /\ ~opts.continueOnError

\* applyDataChanges, lines 87-104, once the table's helper has returned
\* (failed = FALSE) or thrown `error`; then the next table, or lines 106-111
\* and executeSync lines 235-240
TableEnds(tr, failed, error) ==
    LET tname == dataDiffs[ti].tableName
        tr1 == IF failed THEN [tr EXCEPT !.errors = Append(@, error.message)] ELSE tr
        stop == StopRun(failed)
        data1 == IF stop
                 THEN [results.data EXCEPT !.success = FALSE,
                                           !.tables = Append(@, tr1),
                                           !.errors = Append(@, tname \o ": " \o error.message)]
                 ELSE [results.data EXCEPT
                          !.success = IF failed THEN FALSE ELSE @,
                          !.tables = Append(@, tr1),
                          !.totalInserts = @ + tr1.inserts,
                          !.totalUpdates = @ + tr1.updates,
                          !.totalDeletes = @ + tr1.deletes,
                          !.errors = @ \o [i \in 1..Len(tr1.errors) |->
                                              tname \o ": " \o tr1.errors[i]]]
    IN  IF stop \/ ti = Len(dataDiffs)
        THEN /\ results' = [results EXCEPT !.data = data1,
                                           !.success = IF data1.success THEN @ ELSE FALSE]
             /\ xpc' = "returned"
             /\ ti' = ti
             /\ ix' = 0
             /\ tableResult' = tr1
        ELSE /\ results' = [results EXCEPT !.data = data1]
             /\ xpc' = "begin"
             /\ ti' = ti + 1
             /\ ix' = 1
             /\ tableResult' = NewTableResult(dataDiffs[ti + 1].tableName)

Caught_NoRollback(tr, error) ==
    /\ TableEnds(tr, TRUE, error)
    /\ pendingErr' = NoError

\* the catch block of applyIncrementalChanges / applyFullReplace is entered
Caught(tr, error) ==
    /\ xpc' = "rollback"
    /\ pendingErr' = error
    /\ tableResult' = tr
    /\ UNCHANGED <<results, ti, ix>>

\* beginTransaction, lines 121 and 179
BeginTransaction ==
    /\ xpc = "begin"
    /\ \E kind \in DirectKinds :
         LET d == dataDiffs[ti]
             r == direct(kind)
         IN  /\ calls' = Append(calls, Call("beginTransaction", d.tableName, r, 0))
             /\ Spend(DirectFault(kind))
             /\ IF r.ok
                THEN /\ tx' = [open |-> TRUE, snapshot |-> local]
                     /\ xpc' = IF d.fullReplace THEN "deleteAll" ELSE NextPhase(d, 1)
                     /\ ix' = 1
                     /\ UNCHANGED <<results, ti, tableResult>>
                ELSE /\ tx' = tx
                     /\ TableEnds(tableResult, TRUE, r.error)
    /\ UNCHANGED <<local, pendingErr>>
    /\ ExecIdle
    /\ UNCHANGED <<diffVars, remoteVars, utilVars>>

\* applyIncrementalChanges, lines 128-133: one batch through insertRows
InsertBatch ==
    /\ xpc = "insert"
    /\ \E att \in Attempts :
         LET d == dataDiffs[ti]
             t == d.tableName
             batch == SubSeq(d.toInsert, ix, Min(ix + opts.batchSize - 1, Len(d.toInsert)))
             r == execute(att, InsertAccepted(local[t], batch, schema.pk, schema.localCols))
             tr == [tableResult EXCEPT !.inserts = @ + Len(batch)]
         IN  /\ calls' = Append(calls, CallWith("insertRows", t, r, Len(batch), batch))
             /\ Spend(Faulty(att, r.sends))
             /\ IF r.ok
                THEN /\ local' = [local EXCEPT ![t] = PlaceRows(@, batch, schema.pk,
                                                                schema.localCols)]
                     /\ tableResult' = tr
                     /\ IF ix + opts.batchSize <= Len(d.toInsert)
                        THEN /\ ix' = ix + opts.batchSize /\ xpc' = "insert"
                        ELSE /\ ix' = 1 /\ xpc' = NextPhase(d, 2)
                     /\ UNCHANGED <<results, ti, pendingErr>>
                ELSE /\ local' = local
                     /\ Caught(tableResult, r.error)
    /\ UNCHANGED tx
    /\ ExecIdle
    /\ UNCHANGED <<diffVars, remoteVars, utilVars>>

\* applyIncrementalChanges, lines 140-143: one updateRow; LocalWriter.updateRow
\* returns without a statement when the row has only key columns
UpdateRow ==
    /\ xpc = "update"
    /\ \E att \in Attempts :
         LET d == dataDiffs[ti]
             t == d.tableName
             row == d.toUpdate[ix].remote
             noop == SetColumns(row, d.primaryKey) = {}
             r == IF noop THEN [ok |-> TRUE, sends |-> 0, error |-> NoError]
                  ELSE execute(att, UpdateAccepted(row, d.primaryKey, schema.localCols))
         IN  /\ calls' = Append(calls, CallWith("updateRow", t, r, ix, row))
             /\ Spend(Faulty(att, r.sends))
             /\ IF r.ok
                THEN /\ local' = [local EXCEPT ![t] =
                                     IF noop THEN @ ELSE UpdatedRows(@, row, d.primaryKey)]
                     /\ tableResult' = [tableResult EXCEPT !.updates = @ + 1]
                     /\ IF ix < Len(d.toUpdate)
                        THEN /\ ix' = ix + 1 /\ xpc' = "update"
                        ELSE /\ ix' = 1 /\ xpc' = NextPhase(d, 3)
                     /\ UNCHANGED <<results, ti, pendingErr>>
                ELSE /\ local' = local
                     /\ Caught(tableResult, r.error)
    /\ UNCHANGED tx
    /\ ExecIdle
    /\ UNCHANGED <<diffVars, remoteVars, utilVars>>

\* applyIncrementalChanges, lines 150-157: one deleteRow
DeleteRow ==
    /\ xpc = "delete"
    /\ \E att \in Attempts :
         LET d == dataDiffs[ti]
             t == d.tableName
             keyValues == [col \in Range(d.primaryKey) |-> Get(d.toDelete[ix], col)]
             r == execute(att, TRUE)
         IN  /\ calls' = Append(calls, CallWith("deleteRow", t, r, ix, keyValues))
             /\ Spend(Faulty(att, r.sends))
             /\ IF r.ok
                THEN /\ local' = [local EXCEPT ![t] = DeletedRows(@, keyValues, d.primaryKey)]
                     /\ tableResult' = [tableResult EXCEPT !.deletes = @ + 1]
                     /\ IF ix < Len(d.toDelete)
                        THEN /\ ix' = ix + 1 /\ xpc' = "delete"
                        ELSE /\ ix' = 1 /\ xpc' = "commit"
                     /\ UNCHANGED <<results, ti, pendingErr>>
                ELSE /\ local' = local
                     /\ Caught(tableResult, r.error)
    /\ UNCHANGED tx
    /\ ExecIdle
    /\ UNCHANGED <<diffVars, remoteVars, utilVars>>

\* applyFullReplace, line 188: the inserts are skipped for an empty remoteData
AfterDelete_Commit(d) == "commit"

AfterDelete(d) == IF Len(d.remoteData) > 0 THEN "insertAll" ELSE "commit"

\* applyFullReplace, lines 183-185: the table-wide DELETE
DeleteAll ==
    /\ xpc = "deleteAll"
    /\ \E att \in Attempts :
         LET d == dataDiffs[ti]
             t == d.tableName
             r == execute(att, TRUE)
         IN  /\ calls' = Append(calls, Call("execute", t, r, 0))
             /\ Spend(Faulty(att, r.sends))
             /\ IF r.ok
                THEN /\ local' = [local EXCEPT ![t] = <<>>]
                     /\ tableResult' = [tableResult EXCEPT !.deletes = Len(local[t])]
                     /\ ix' = 1
                     /\ xpc' = AfterDelete(d)
                     /\ UNCHANGED <<results, ti, pendingErr>>
                ELSE /\ local' = local
                     /\ Caught(tableResult, r.error)
    /\ UNCHANGED tx
    /\ ExecIdle
    /\ UNCHANGED <<diffVars, remoteVars, utilVars>>

\* applyFullReplace, lines 188-196: one batch of remoteData
InsertAll ==
    /\ xpc = "insertAll"
    /\ \E att \in Attempts :
         LET d == dataDiffs[ti]
             t == d.tableName
             batch == SubSeq(d.remoteData, ix, Min(ix + FullReplaceBatch - 1, Len(d.remoteData)))
             r == execute(att, InsertAccepted(local[t], batch, schema.pk, schema.localCols))
         IN  /\ calls' = Append(calls, CallWith("insertRows", t, r, Len(batch), batch))
             /\ Spend(Faulty(att, r.sends))
             /\ IF r.ok
                THEN /\ local' = [local EXCEPT ![t] = PlaceRows(@, batch, schema.pk,
                                                                schema.localCols)]
                     /\ tableResult' = [tableResult EXCEPT !.inserts = @ + Len(batch)]
                     /\ IF ix + FullReplaceBatch <= Len(d.remoteData)
                        THEN /\ ix' = ix + FullReplaceBatch /\ xpc' = "insertAll"
                        ELSE /\ ix' = 1 /\ xpc' = "commit"
                     /\ UNCHANGED <<results, ti, pendingErr>>
                ELSE /\ local' = local
                     /\ Caught(tableResult, r.error)
    /\ UNCHANGED tx
    /\ ExecIdle
    /\ UNCHANGED <<diffVars, remoteVars, utilVars>>

\* commit, lines 161 and 198
Commit ==
    /\ xpc = "commit"
    /\ \E kind \in DirectKinds :
         LET d == dataDiffs[ti]
             r == direct(kind)
         IN  /\ calls' = Append(calls, Call("commit", d.tableName, r, 0))
             /\ Spend(DirectFault(kind))
             /\ IF r.ok
                THEN /\ tx' = NoTx
                     /\ TableEnds(tableResult, FALSE, NoError)
                     /\ UNCHANGED pendingErr
                ELSE /\ tx' = tx
                     /\ Caught(tableResult, r.error)
    /\ UNCHANGED local
    /\ ExecIdle
    /\ UNCHANGED <<diffVars, remoteVars, utilVars>>

\* the catch blocks, lines 163-168 and 199-202: rollback, then rethrow; an
\* error of rollback itself leaves the catch block in place of the first one
Rollback ==
    /\ xpc = "rollback"
    /\ \E kind \in DirectKinds :
         LET d == dataDiffs[ti]
             r == direct(kind)
         IN  /\ calls' = Append(calls, Call("rollback", d.tableName, r, 0))
             /\ Spend(DirectFault(kind))
             /\ IF r.ok
                THEN /\ local' = tx.snapshot
                     /\ tx' = NoTx
                     /\ TableEnds(tableResult, TRUE, pendingErr)
                ELSE /\ local' = local
                     /\ tx' = tx
                     /\ TableEnds(tableResult, TRUE, r.error)
    /\ pendingErr' = NoError
    /\ ExecIdle
    /\ UNCHANGED <<diffVars, remoteVars, utilVars>>

----------------------------------------------------------------------------
(* remote-reader.js (src/unnamed/part_005)                                 *)

\* A statement is a sequence of tokens: " " is white space, the others are
\* pieces of text that hold none.
Tokens == {" ", "select", "SELECT", "Show", "desc", "DESCRIBE", "explain",
           "insert", "DELETE", "update", "drop", "(", "x"}

ALLOWED_OPERATIONS == {"SELECT", "SHOW", "DESCRIBE", "DESC", "EXPLAIN"}

\* String.prototype.toUpperCase on a token
toUpperCase(tok) ==
    CASE tok = "select" -> "SELECT"
      [] tok = "Show" -> "SHOW"
      [] tok = "desc" -> "DESC"
      [] tok = "explain" -> "EXPLAIN"
      [] tok = "insert" -> "INSERT"
      [] tok = "update" -> "UPDATE"
      [] tok = "drop" -> "DROP"
      [] tok = "x" -> "X"
      [] OTHER -> tok

\* String.prototype.trim: leading white space (trailing white space never
\* changes the first word)
RECURSIVE trim(_)
trim(sql) == IF sql # <<>> /\ Head(sql) = " " THEN trim(Tail(sql)) ELSE sql

\* split(/\s+/)[0]: the text up to the first white space
RECURSIVE FirstWord(_)
FirstWord(sql) ==
    IF sql = <<>> \/ Head(sql) = " " THEN ""
    ELSE toUpperCase(Head(sql)) \o FirstWord(Tail(sql))

validateReadOnly_AnyWord(sql) ==
    \E i \in 1..Len(sql) : toUpperCase(sql[i]) \in ALLOWED_OPERATIONS

\* validateReadOnly, lines 29-40: TRUE when it returns, FALSE when it throws
validateReadOnly(sql) == FirstWord(trim(sql)) \in ALLOWED_OPERATIONS

\* RemoteReader.query, lines 95-112
RemoteQuery ==
    /\ rres = "pending"
    /\ IF ~validateReadOnly(stmt)
       THEN /\ rres' = "refused"
            /\ conn' = conn
       ELSE \E att \in [1..opts.maxAttempts -> AttemptKinds] :
               LET r == withRetry(att, TRUE, opts.maxAttempts, 1)
               IN  /\ rres' = IF r.ok THEN "rows" ELSE "error"
                   /\ conn' = conn \o [i \in 1..r.sends |-> stmt]
    /\ UNCHANGED stmt
    /\ UNCHANGED <<local, diffVars, execVars, utilVars>>

----------------------------------------------------------------------------
(* Inputs                                                                  *)

DefaultMaxAttempts == 5

R(i, x) == [id |-> Num(i), name |-> Str(x)]

SingleRows == {R(i, x) : i \in 1..MaxId, x \in {"a", "b"}}
CompositeRows == {[k1 |-> Str(x), k2 |-> Str(y)] : x \in {"a", "a|b"}, y \in {"c", "b|c"}}
TsRows == {[id |-> Num(i), updated_at |-> t] : i \in 1..MaxId, t \in {Null, Date(1), Date(2)}}
NoPkRows == {[name |-> Str(x)] : x \in {"a", "b"}}

RECURSIVE Clustered(_, _)
Clustered(S, pk) ==
    IF S = {} THEN <<>>
    ELSE LET r == CHOOSE x \in S : TRUE
         IN  PlaceRow(Clustered(S \ {r}, pk), r, pk)

\* the tables over a row universe that hold at most one row per key
KeyedTables(U, pk) ==
    {Clustered(S, pk) : S \in {X \in SUBSET U : \A a, b \in X : a # b => KeyOf(a, pk) # KeyOf(b, pk)}}

RECURSIVE SeqsUpTo(_, _)
SeqsUpTo(U, n) ==
    IF n = 0 THEN {<<>>}
    ELSE LET shorter == SeqsUpTo(U, n - 1)
         IN  shorter \cup {Append(q, x) : q \in shorter, x \in U}

NoOverride == [given |-> FALSE, cols |-> <<>>]

\* rows of a local table that was created without the timestamp column
IdRows == {[id |-> Num(i)] : i \in 1..MaxId}

Kinds ==
    { [pk |-> <<"id">>, cols |-> {"id", "name"}, tables |-> KeyedTables(SingleRows, <<"id">>),
       localCols |-> {"id", "name"}, localTables |-> KeyedTables(SingleRows, <<"id">>)],
      [pk |-> <<"k1", "k2">>, cols |-> {"k1", "k2"},
       tables |-> KeyedTables(CompositeRows, <<"k1", "k2">>),
       localCols |-> {"k1", "k2"}, localTables |-> KeyedTables(CompositeRows, <<"k1", "k2">>)],
      [pk |-> <<"id">>, cols |-> {"id", "updated_at"}, tables |-> KeyedTables(TsRows, <<"id">>),
       localCols |-> {"id", "updated_at"}, localTables |-> KeyedTables(TsRows, <<"id">>)],
      [pk |-> <<"id">>, cols |-> {"id", "updated_at"}, tables |-> KeyedTables(TsRows, <<"id">>),
       localCols |-> {"id"}, localTables |-> KeyedTables(IdRows, <<"id">>)],
      [pk |-> <<>>, cols |-> {"name"}, tables |-> SeqsUpTo(NoPkRows, MaxNoPkRows),
       localCols |-> {"name"}, localTables |-> SeqsUpTo(NoPkRows, MaxNoPkRows)] }

\* options.primaryKey: absent, an empty list, or a column list of the caller
Overrides(k) ==
    {NoOverride, [given |-> TRUE, cols |-> <<>>]}
        \cup (IF k.pk = <<>> THEN {[given |-> TRUE, cols |-> <<"name">>]} ELSE {})

ExecInit(f) ==
    /\ xpc = "idle"
    /\ faults = f
    /\ ti = 0
    /\ ix = 0
    /\ tableResult = NewTableResult("")
    /\ results = NewResults
    /\ calls = <<>>
    /\ tx = NoTx
    /\ pendingErr = NoError

DiffInitIdle ==
    /\ round = 1
    /\ pc = "idle"
    /\ strategy = ""
    /\ diff = NoDiff
    /\ offset = 0
    /\ remoteKeysSeen = {}
    /\ localIndex = <<>>
    /\ firstDiff = NoDiff
    /\ probes = {}

RemoteInitIdle ==
    /\ stmt = <<>>
    /\ rres = "idle"
    /\ conn = <<>>

CallInitIdle ==
    /\ fanout = [status |-> "idle"]
    /\ confirm = [status |-> "idle"]
    /\ sdiff = [status |-> "idle"]
    /\ reader = [status |-> "idle"]
    /\ cmp = [status |-> "idle"]

UtilInitIdle ==
    /\ retry = [status |-> "idle"]
    /\ backoff = [status |-> "idle"]
    /\ breaker = [status |-> "idle"]
    /\ CallInitIdle

\* a table to diff: any pair of remote and local tables of one kind, or no
\* local table at all, and any options
InitDiff ==
    /\ \E k \in Kinds :
         /\ remote \in k.tables
         /\ \E exists \in BOOLEAN, l \in k.localTables :
               /\ schema = [pk |-> k.pk, remoteCols |-> k.cols, localCols |-> k.localCols,
                            localExists |-> exists]
               /\ (~exists => l = <<>>)
               /\ local = [t \in Tables |-> IF t = T1 THEN l ELSE <<>>]
         /\ \E c \in 1..MaxChunk, inc \in BOOLEAN, str \in BOOLEAN, o \in Overrides(k) :
               /\ (o.given => c = 1)
               /\ opts = [chunkSize |-> c, useIncremental |-> inc, streamingMode |-> str,
                          primaryKey |-> o, batchSize |-> c, continueOnError |-> FALSE,
                          maxAttempts |-> DefaultMaxAttempts]
    /\ round = 1
    /\ pc = "start"
    /\ strategy = ""
    /\ diff = NoDiff
    /\ offset = 0
    /\ remoteKeysSeen = {}
    /\ localIndex = <<>>
    /\ firstDiff = NoDiff
    /\ probes = {}
    /\ schemaDiffs = <<>>
    /\ dataDiffs = <<>>
    /\ ExecInit(0)
    /\ RemoteInitIdle
    /\ UtilInitIdle

\* cli.js, lines 234-244: the whole diff is approved and handed to executeSync
Approve ==
    /\ pc = "done"
    /\ round = 1
    /\ xpc = "idle"
    /\ firstDiff' = diff
    /\ dataDiffs' = <<diff>>
    /\ pc' = "applying"
    /\ xpc' = "start"
    /\ UNCHANGED <<schema, remote, opts, round, strategy, diff, offset, remoteKeysSeen,
                   localIndex, probes>>
    /\ UNCHANGED <<schemaDiffs, faults, ti, ix, tableResult, results, calls, tx, pendingErr>>
    /\ UNCHANGED <<local, remoteVars, utilVars>>

\* the next run of the tool against the same remote snapshot
Rediff ==
    /\ pc = "applying"
    /\ xpc = "returned"
    /\ results.success
    /\ round' = 2
    /\ pc' = "start"
    /\ UNCHANGED <<schema, remote, opts, strategy, diff, offset, remoteKeysSeen, localIndex,
                   firstDiff, probes>>
    /\ UNCHANGED <<local, execVars, remoteVars, utilVars>>

DiffStep ==
    \/ DiffTableData
    \/ StreamingStart
    \/ StreamRemoteChunk
    \/ StreamLocalChunk
    \/ InMemoryStart
    \/ InMemoryLocalChunk
    \/ InMemoryRemoteChunk
    \/ FullTableDiff
    \/ IncrementalDiff

DataStep ==
    \/ BeginTransaction
    \/ InsertBatch
    \/ UpdateRow
    \/ DeleteRow
    \/ DeleteAll
    \/ InsertAll
    \/ Commit
    \/ Rollback

NextDiff == DiffStep \/ Approve \/ ExecuteSync \/ DataStep \/ Rediff

SpecDiff == InitDiff /\ [][NextDiff]_vars

----------------------------------------------------------------------------
(* The streaming diff of a keyed table alone, with a reader that has or    *)
(* has not getRowCount; and the same while other clients of the remote     *)
(* database insert and delete rows between two chunk fetches.              *)

\* rows of a local table that has a column the remote table lacks
WiderRows == {[id |-> Num(i), name |-> Str(x), extra |-> Str("a")] : i \in 1..MaxId, x \in {"a", "b"}}

InitStream ==
    /\ remote \in KeyedTables(SingleRows, <<"id">>)
    /\ \E U \in {SingleRows, WiderRows}, counts \in BOOLEAN :
        \E l \in KeyedTables(U, <<"id">>) :
          /\ schema = [pk |-> <<"id">>, remoteCols |-> {"id", "name"},
                       localCols |-> IF U = WiderRows /\ l # <<>>
                                     THEN {"id", "name", "extra"} ELSE {"id", "name"},
                       localExists |-> TRUE, getRowCount |-> counts]
          /\ local = [t \in Tables |-> IF t = T1 THEN l ELSE <<>>]
    /\ \E c \in 1..MaxChunk :
          opts = [chunkSize |-> c, useIncremental |-> FALSE, streamingMode |-> TRUE,
                  primaryKey |-> NoOverride, batchSize |-> c, continueOnError |-> FALSE,
                  maxAttempts |-> DefaultMaxAttempts]
    /\ round = 1
    /\ pc = "start"
    /\ strategy = ""
    /\ diff = NoDiff
    /\ offset = 0
    /\ remoteKeysSeen = {}
    /\ localIndex = <<>>
    /\ firstDiff = NoDiff
    /\ probes = {}
    /\ schemaDiffs = <<>>
    /\ dataDiffs = <<>>
    /\ ExecInit(0)
    /\ RemoteInitIdle
    /\ UtilInitIdle

NextStream ==
    \/ DiffTableData
    \/ StreamingStart
    \/ StreamRemoteChunk
    \/ StreamLocalChunk

SpecStream == InitStream /\ [][NextStream]_vars

\* the row another client inserts: its key sorts before every key of the table
NewRemoteRow == R(0, "a")

\* another client of the remote database commits an INSERT or a DELETE while
\* the diff is between two fetches of getTableDataChunked (part_005 lines
\* 198-210: every fetch is a statement of its own)
RemoteWrite ==
    /\ pc = "streamRemote"
    /\ offset > 0
    /\ \/ /\ \A i \in 1..Len(remote) : remote[i].id # NewRemoteRow.id
          /\ remote' = <<NewRemoteRow>> \o remote
       \/ \E i \in 1..Len(remote) :
             remote' = SubSeq(remote, 1, i - 1) \o SubSeq(remote, i + 1, Len(remote))
    /\ UNCHANGED <<schema, opts, round, pc, strategy, diff, offset, remoteKeysSeen,
                   localIndex, firstDiff, probes>>
    /\ UNCHANGED <<local, execVars, remoteVars, utilVars>>

NextConcurrent ==
    \/ NextStream
    \/ RemoteWrite

SpecConcurrent == InitStream /\ [][NextConcurrent]_vars

----------------------------------------------------------------------------
(* The streaming diff and the in-memory diff of the same keyed tables:     *)
(* diffTableData is called with streamingMode true, then with false.       *)

InitBoth ==
    /\ InitDiff
    /\ opts.streamingMode
    /\ ~opts.useIncremental
    /\ schema.localExists
    /\ EffectivePk # <<>>

\* diffTableData called again on the same tables with streamingMode: false
\* (lines 50-55); the streaming diff is kept for the comparison
InMemoryRun ==
    /\ pc = "done"
    /\ strategy = "streamingTableDiff"
    /\ round = 1
    /\ firstDiff' = diff
    /\ opts' = [opts EXCEPT !.streamingMode = FALSE]
    /\ round' = 2
    /\ pc' = "start"
    /\ UNCHANGED <<schema, remote, strategy, diff, offset, remoteKeysSeen, localIndex, probes>>
    /\ UNCHANGED <<local, execVars, remoteVars, utilVars>>

NextBoth ==
    \/ DiffTableData
    \/ StreamingStart
    \/ StreamRemoteChunk
    \/ StreamLocalChunk
    \/ InMemoryRun
    \/ InMemoryStart
    \/ InMemoryLocalChunk
    \/ InMemoryRemoteChunk

SpecBoth == InitBoth /\ [][NextBoth]_vars

----------------------------------------------------------------------------
(* executeSync on approved diffs, with a local connection that may fail    *)

SchemaDiffOf(t, h, n) == [tableName |-> t, hasChanges |-> h, sql |-> [i \in 1..n |-> i]]

SchemaChoices ==
    { <<>>,
      <<SchemaDiffOf("t1", TRUE, MaxStmts)>>,
      <<SchemaDiffOf("t1", FALSE, 1), SchemaDiffOf("t2", TRUE, 1)>>,
      <<SchemaDiffOf("t1", TRUE, 1), SchemaDiffOf("t2", TRUE, 1)>> }

\* a keyed diff of table t: ni rows to insert (ids 3..), nu to update (ids 1..),
\* nd to delete (ids 2, 1, ..)
KeyedDiff(t, ni, nu, nd) ==
    [NewDiff(<<"id">>, FALSE) EXCEPT
        !.tableName = t,
        !.toInsert = [i \in 1..ni |-> R(i + 2, "a")],
        !.toUpdate = [i \in 1..nu |-> [remote |-> R(i, "b"), local |-> R(i, "a"),
                                        changes |-> getRowChanges(R(i, "a"), R(i, "b"))]],
        !.toDelete = [i \in 1..nd |-> R(3 - i, "a")],
        !.stats = [EmptyStats EXCEPT !.inserts = ni, !.updates = nu, !.deletes = nd]]

\* a full-replace diff of table t carrying n rows
ReplaceDiff(t, n) ==
    [NewDiff(<<>>, FALSE) EXCEPT
        !.tableName = t,
        !.fullReplace = TRUE,
        !.remoteData = [i \in 1..n |-> R(i + 2, "a")],
        !.stats = [EmptyStats EXCEPT !.remoteRows = n, !.inserts = n]]

FirstDiffs == {KeyedDiff("t1", ni, 0, 0) : ni \in 0..MaxIns}
                 \cup {KeyedDiff("t1", 0, nu, 0) : nu \in 1..MaxUpd}
                 \cup {KeyedDiff("t1", 0, 0, nd) : nd \in 1..MaxDel}
                 \cup {KeyedDiff("t1", 1, 1, 1), KeyedDiff("t1", MaxIns, 1, 1)}
                 \cup {ReplaceDiff("t1", n) : n \in 0..MaxIns}
SecondDiffs == {KeyedDiff("t2", 1, 0, 0), ReplaceDiff("t2", 1)}

DataChoices == {<<>>} \cup {<<a>> : a \in FirstDiffs}
                   \cup {<<a, b>> : a \in FirstDiffs, b \in SecondDiffs}

\* the approved plans: every data plan alone, and every schema plan before
\* a data plan of two tables
Plans == {<<<<>>, dd>> : dd \in DataChoices}
            \cup {<<sd, <<KeyedDiff("t1", 1, 1, 1), b>>>> : sd \in SchemaChoices, b \in SecondDiffs}
            \cup {<<sd, <<>>>> : sd \in SchemaChoices}

\* the local tables before the run
ExecLocal == [t \in Tables |-> <<R(1, "a"), R(2, "a")>>]

InitExec ==
    /\ schema = [pk |-> <<"id">>, remoteCols |-> {"id", "name"}, localCols |-> {"id", "name"},
                 localExists |-> TRUE]
    /\ remote = <<>>
    /\ local = ExecLocal
    /\ \E b \in 1..MaxBatch, coe \in BOOLEAN, m \in 1..MaxAttemptsBound :
         opts = [chunkSize |-> b, useIncremental |-> TRUE, streamingMode |-> TRUE,
                 primaryKey |-> NoOverride, batchSize |-> b, continueOnError |-> coe,
                 maxAttempts |-> m]
    /\ \E plan \in Plans : schemaDiffs = plan[1] /\ dataDiffs = plan[2]
    /\ DiffInitIdle
    /\ xpc = "start"
    /\ faults = MaxFaults
    /\ ti = 0
    /\ ix = 0
    /\ tableResult = NewTableResult("")
    /\ results = NewResults
    /\ calls = <<>>
    /\ tx = NoTx
    /\ pendingErr = NoError
    /\ RemoteInitIdle
    /\ UtilInitIdle

Next == ExecuteSync \/ ApplySchemaStatement \/ DataStep

Spec == InitExec /\ [][Next]_vars

----------------------------------------------------------------------------
(* A statement handed to RemoteReader.query, beside runs of executeSync    *)

InitRemote ==
    /\ schema = [pk |-> <<"id">>, remoteCols |-> {"id", "name"}, localCols |-> {"id", "name"},
                 localExists |-> TRUE]
    /\ remote = <<>>
    /\ local = [t \in Tables |-> <<>>]
    /\ \E m \in 1..MaxAttemptsBound :
         opts = [chunkSize |-> 1, useIncremental |-> TRUE, streamingMode |-> TRUE,
                 primaryKey |-> NoOverride, batchSize |-> 1, continueOnError |-> FALSE,
                 maxAttempts |-> m]
    /\ schemaDiffs = <<>>
    /\ dataDiffs = <<>>
    /\ DiffInitIdle
    /\ ExecInit(0)
    /\ stmt \in SeqsUpTo(Tokens, MaxTokens)
    /\ rres = "pending"
    /\ conn = <<>>
    /\ UtilInitIdle

NextRemote == RemoteQuery \/ ExecuteSync \/ ApplySchemaStatement \/ DataStep

SpecRemote == (InitRemote \/ InitExec) /\ [][NextRemote]_vars

----------------------------------------------------------------------------
(* Properties of the executor                                              *)

WriteOps == {"insertRows", "updateRow", "deleteRow", "execute"}
DataOps == WriteOps \cup {"beginTransaction", "commit", "rollback"}

CallsOf(t) == SelectSeq(calls, LAMBDA c : c.table = t /\ c.op \in DataOps)
Count(q, P(_)) == Len(SelectSeq(q, P))

SchemaStatementFailed == \E i \in 1..Len(calls) : calls[i].op = "executeSchema" /\ ~calls[i].ok

\* C2: once a schema statement has failed, executeSync issues no data call
\* for any table, and it returns success = false with data = null.
C2_SchemaFailureGatesData ==
    SchemaStatementFailed =>
        /\ \A i \in 1..Len(calls) : calls[i].op \notin DataOps
        /\ xpc = "returned" => (~results.success /\ ~results.data.ran)

C2_Witness ==
    /\ xpc = "returned"
    /\ SchemaStatementFailed
    /\ Len(dataDiffs) = 2
    /\ \E i \in 1..Len(calls) : calls[i].op = "executeSchema" /\ calls[i].ok

\* the tables applyDataChanges has finished with, and their results
Ended(t) == \E i \in 1..Len(results.data.tables) : results.data.tables[i].table = t
ResultOf(t) == results.data.tables[CHOOSE i \in 1..Len(results.data.tables) :
                                      results.data.tables[i].table = t]
ThrewInside(t) ==
    \E i \in 1..Len(CallsOf(t)) :
        CallsOf(t)[i].op \in WriteOps \cup {"commit"} /\ ~CallsOf(t)[i].ok

\* C3: a table whose insert batch, updateRow, deleteRow, table-wide DELETE
\* or commit threw inside its transaction got exactly one rollback, right
\* after the call that threw and as its last call, no successful commit,
\* and a non-empty errors list; its calls start with beginTransaction, so
\* a second insert batch that throws gives begin, insert, insert, rollback.
C3_RollbackOnFailure ==
    \A t \in Tables :
        (Ended(t) /\ ThrewInside(t)) =>
            LET cs == CallsOf(t)
                n == Len(cs)
            IN  /\ Count(cs, LAMBDA c : c.op = "rollback") = 1
                /\ Count(cs, LAMBDA c : c.op = "commit" /\ c.ok) = 0
                /\ Count(cs, LAMBDA c : c.op # "rollback" /\ ~c.ok) = 1
                /\ n >= 3
                /\ cs[1].op = "beginTransaction" /\ cs[1].ok
                /\ cs[n].op = "rollback"
                /\ ~cs[n - 1].ok
                /\ \A i \in 2..(n - 2) : cs[i].ok /\ cs[i].op \in WriteOps
                /\ ResultOf(t).errors # <<>>

C3_Witness ==
    /\ Ended("t1")
    /\ Len(CallsOf("t1")) = 4
    /\ CallsOf("t1")[2].op = "insertRows" /\ CallsOf("t1")[2].ok
    /\ CallsOf("t1")[3].op = "insertRows" /\ ~CallsOf("t1")[3].ok
    /\ CallsOf("t1")[4].op = "rollback" /\ CallsOf("t1")[4].ok

TableFailedAt(i) == i <= Len(results.data.tables) /\ results.data.tables[i].errors # <<>>

\* C4: with continueOnError = false no call is made for a table that comes
\* after a failed one, and the run returns success = false; with
\* continueOnError = true every table is attempted, in caller order, and a
\* failed table still makes success = false.
C4_ContinueOnError ==
    /\ ~opts.continueOnError =>
          \A i \in 1..Len(dataDiffs) :
              TableFailedAt(i) =>
                  /\ \A j \in (i + 1)..Len(dataDiffs) : CallsOf(dataDiffs[j].tableName) = <<>>
                  /\ Len(results.data.tables) = i
                  /\ xpc = "returned"
                  /\ ~results.data.success /\ ~results.success
    /\ (opts.continueOnError /\ xpc = "returned" /\ results.data.ran) =>
          /\ Len(results.data.tables) = Len(dataDiffs)
          /\ \A j \in 1..Len(dataDiffs) :
                /\ results.data.tables[j].table = dataDiffs[j].tableName
                /\ CallsOf(dataDiffs[j].tableName) # <<>>
                /\ CallsOf(dataDiffs[j].tableName)[1].op = "beginTransaction"
          /\ \A i, j \in 1..Len(calls) :
                (calls[i].table = "t2" /\ calls[j].table = "t1"
                 /\ calls[i].op \in DataOps /\ calls[j].op \in DataOps) => j < i
          /\ (\E i \in 1..Len(dataDiffs) : TableFailedAt(i)) =>
                (~results.data.success /\ ~results.success)

C4_Witness ==
    /\ ~opts.continueOnError
    /\ xpc = "returned"
    /\ Len(dataDiffs) = 2
    /\ TableFailedAt(1)
    /\ Len(CallsOf("t1")) > 2

\* C5: a rollback that throws is fatal: executeSync ends by throwing rather
\* than by returning a result, and no call follows the failed rollback.
C5_RollbackFailureIsFatal ==
    \A i \in 1..Len(calls) :
        (calls[i].op = "rollback" /\ ~calls[i].ok) => (i = Len(calls) /\ xpc = "thrown")

\* C6: every write the executor requests is sent on the local connection at
\* most once.
C6_WritesSentOnce ==
    \A i \in 1..Len(calls) : calls[i].op \in WriteOps => calls[i].sends <= 1

FullReplaceTables == {dataDiffs[i].tableName : i \in {j \in 1..Len(dataDiffs) : dataDiffs[j].fullReplace}}
DiffOf(t) == dataDiffs[CHOOSE i \in 1..Len(dataDiffs) : dataDiffs[i].tableName = t]
RECURSIVE SumArgs(_)
SumArgs(cs) == IF cs = <<>> THEN 0 ELSE Head(cs).arg + SumArgs(Tail(cs))

----------------------------------------------------------------------------
(* Properties of the remote reader                                         *)

\* the first keyword of a statement is w: after leading white space comes a
\* word that spells w in any case and ends at white space or with the statement
StartsWithKeyword(sql, w) ==
    \E a \in 1..Len(sql) :
        /\ \A i \in 1..(a - 1) : sql[i] = " "
        /\ toUpperCase(sql[a]) = w
        /\ a < Len(sql) => sql[a + 1] = " "

ReadOnlyStatement(sql) == \E w \in ALLOWED_OPERATIONS : StartsWithKeyword(sql, w)

\* C7: only statements whose first keyword is SELECT, SHOW, DESCRIBE, DESC
\* or EXPLAIN reach the remote connection; any other statement is refused
\* with the connection untouched; and executeSync never uses the remote
\* connection.
C7_RemoteReadOnly ==
    /\ \A i \in 1..Len(conn) : ReadOnlyStatement(conn[i])
    /\ rres \in {"rows", "error"} => (ReadOnlyStatement(stmt) /\ Len(conn) >= 1)
    /\ (rres \notin {"idle", "pending"} /\ ~ReadOnlyStatement(stmt)) =>
          (rres = "refused" /\ conn = <<>>)
    /\ calls # <<>> => conn = <<>>

C7_Witness ==
    /\ rres = "refused"
    /\ conn = <<>>
    /\ Len(stmt) = 3
    /\ stmt[1] = " " /\ stmt[2] = "DELETE" /\ stmt[3] = "select"

----------------------------------------------------------------------------
(* Properties of the diff                                                  *)

KeysIn(rows, pk) == {KeyOf(rows[i], pk) : i \in 1..Len(rows)}
RemoteKeys == KeysIn(remote, EffectivePk)
LocalKeys == KeysIn(local[T1], EffectivePk)
InsertKeys == KeysIn(diff.toInsert, EffectivePk)
DeleteKeys == KeysIn(diff.toDelete, EffectivePk)
UpdateKeys == {KeyOf(diff.toUpdate[i].remote, EffectivePk) : i \in 1..Len(diff.toUpdate)}

DiffDone == pc = "done"

EmptyDiff ==
    /\ diff.toInsert = <<>> /\ diff.toUpdate = <<>> /\ diff.toDelete = <<>>
    /\ diff.stats.inserts = 0 /\ diff.stats.updates = 0 /\ diff.stats.deletes = 0

\* the local row that holds the key of a remote row
LocalRowOf(r) == CHOOSE l \in Range(local[T1]) : KeyOf(l, EffectivePk) = KeyOf(r, EffectivePk)

\* C1: a finished streaming diff partitions the union of the remote and
\* local keys: toInsert holds exactly the remote-only keys, toDelete exactly
\* the local-only keys, every other key is a matched pair (in toUpdate or
\* unchanged), and no key is listed twice.
C1_StreamingPartition ==
    (DiffDone /\ strategy = "streamingTableDiff") =>
        /\ InsertKeys = RemoteKeys \ LocalKeys
        /\ DeleteKeys = LocalKeys \ RemoteKeys
        /\ UpdateKeys \subseteq RemoteKeys \cap LocalKeys
        /\ Cardinality(InsertKeys) = Len(diff.toInsert)
        /\ Cardinality(DeleteKeys) = Len(diff.toDelete)
        /\ Cardinality(UpdateKeys) = Len(diff.toUpdate)

\* C8: after executeSync has successfully applied the whole diff, the diff
\* against the same remote snapshot is empty.
C8_RediffEmpty ==
    (DiffDone /\ round = 2) => EmptyDiff

\* C9: tables with the same keys and equal rows per key diff to nothing.
C9_EqualTablesEmptyDiff ==
    (/\ DiffDone
     /\ Len(EffectivePk) > 0
     /\ RemoteKeys = LocalKeys
     /\ \A r \in Range(remote) : rowsEqual(r, LocalRowOf(r))) => EmptyDiff

\* C10: the incremental strategy (fallback included) never lists deletes;
\* the streaming and in-memory strategies list exactly the local rows whose
\* key is absent from remote.
C10_Deletes ==
    DiffDone =>
        /\ strategy = "incrementalDiff" =>
              (diff.toDelete = <<>> /\ diff.stats.deletes = 0)
        /\ strategy \in {"streamingTableDiff", "inMemoryTableDiff"} =>
              /\ Range(diff.toDelete) =
                    {l \in Range(local[T1]) : KeyOf(l, EffectivePk) \notin RemoteKeys}
              /\ Len(diff.toDelete) = Cardinality(Range(diff.toDelete))
              /\ diff.stats.deletes = Len(diff.toDelete)

\* C11: a diff returned by the incremental strategy carries incremental = true
\* on every return path.
C11_IncrementalTagged ==
    (DiffDone /\ strategy = "incrementalDiff") => diff.incremental = "true"

\* C12: an incremental diff of a table with more local than remote rows is
\* returned with the drift warning raised, on every return path.
C12_DriftWarning ==
    (DiffDone /\ strategy = "incrementalDiff" /\ Len(local[T1]) > Len(remote)) => diff.warned

LocalProbes == {"tableExists", "local.checkTimestampColumns", "getMaxTimestamp",
                "getModifiedRows"}

\* C13: the strategy is full replace iff the effective primary key is empty;
\* else incremental iff useIncremental and both tables have updated_at and the
\* local table exists; else streaming if streamingMode, else in-memory.  With
\* useIncremental = false none of tableExists, the local checkTimestampColumns,
\* getMaxTimestamp, getModifiedRows is called.
C13_StrategyPriority ==
    /\ pc \notin {"idle", "start"} =>
          LET key == IF opts.primaryKey.given THEN opts.primaryKey.cols ELSE schema.pk
              timed == /\ opts.useIncremental
                       /\ "updated_at" \in schema.remoteCols
                       /\ schema.localExists
                       /\ "updated_at" \in schema.localCols
          IN  /\ (strategy = "fullTableDiff") <=> (key = <<>>)
              /\ (strategy = "incrementalDiff") <=> (key # <<>> /\ timed)
              /\ (strategy = "streamingTableDiff") <=>
                     (key # <<>> /\ ~timed /\ opts.streamingMode)
              /\ (strategy = "inMemoryTableDiff") <=>
                     (key # <<>> /\ ~timed /\ ~opts.streamingMode)
    /\ ~opts.useIncremental => probes \cap LocalProbes = {}

C13_Witness ==
    /\ DiffDone
    /\ round = 1
    /\ ~opts.useIncremental
    /\ ~opts.streamingMode
    /\ strategy = "inMemoryTableDiff"
    /\ "updated_at" \in schema.remoteCols \cap schema.localCols
    /\ Len(remote) > 0 /\ Len(local[T1]) > 0

----------------------------------------------------------------------------
(* retry.js: a call of withRetry, one loop iteration at a time             *)

\* what an invocation of fn may do: resolve ("db"), or reject with an error
FnKinds == {"db", "retryable", "deadlock", "reset", "fatal"}

\* the value fn resolves with at its a-th invocation
ValueOf(a) == a

\* line 121
FailedAfter == [message |-> "operation failed after N attempts", code |-> ""]

\* line 80: shouldRetry && !shouldRetry(error)
NotRetried(shouldRetry, error) == shouldRetry = "isRetryableError" /\ ~isRetryableError(error)

\* line 86
Exhausted_OneMore(attempt, maxAttempts) == attempt > maxAttempts
Exhausted(attempt, maxAttempts) == attempt >= maxAttempts

\* lines 73-118: one iteration of the for loop
WithRetryAttempt ==
    /\ retry.status = "running"
    /\ retry.attempt <= retry.maxAttempts
    /\ LET a == retry.attempt
           kind == retry.script[a]
           error == ErrorOf(kind)
           called == [retry EXCEPT !.invoked = @ + 1]
       IN  retry' =
             IF kind = "db"
             THEN [called EXCEPT !.status = "returned", !.value = ValueOf(a)]
             ELSE IF NotRetried(retry.shouldRetry, error) \/ Exhausted(a, retry.maxAttempts)
             THEN [called EXCEPT !.status = "thrown", !.error = error]
             ELSE [called EXCEPT !.onRetryCalls = IF retry.onRetry = "null" THEN @ ELSE @ + 1,
                                 !.sleeps = @ + 1,
                                 !.attempt = a + 1]
    /\ UNCHANGED <<diffVars, local, execVars, remoteVars, backoff, breaker, callVars>>

\* line 121: the loop ended without a return or a throw
WithRetryFallThrough ==
    /\ retry.status = "running"
    /\ retry.attempt > retry.maxAttempts
    /\ retry' = [retry EXCEPT !.status = "thrown", !.error = FailedAfter]
    /\ UNCHANGED <<diffVars, local, execVars, remoteVars, backoff, breaker, callVars>>

\* the calls of withRetry: fn may do anything at each invocation
RetryCalls ==
    {[status |-> "running", script |-> sc, maxAttempts |-> m, shouldRetry |-> sr,
      onRetry |-> cb, attempt |-> 1, invoked |-> 0, sleeps |-> 0, onRetryCalls |-> 0,
      value |-> 0, error |-> NoError] :
        sc \in [1..MaxAttemptsBound -> FnKinds],
        m \in 0..MaxAttemptsBound,
        sr \in {"isRetryableError", "null"},
        cb \in {"null", "resolves", "throws"}}

----------------------------------------------------------------------------
(* retry.js: calculateBackoff.  Its numbers are fractions, kept exact: a   *)
(* fraction is [num, den] with den > 0.                                    *)

MaxBackoffAttempt == 5   \* calculateBackoff is called for attempts 1..MaxBackoffAttempt

Frac(n, d) == [num |-> n, den |-> d]
Times(x, y) == Frac(x.num * y.num, x.den * y.den)
Plus(x, y) == Frac(x.num * y.den + y.num * x.den, x.den * y.den)
Leq(x, y) == x.num * y.den <= y.num * x.den

RECURSIVE Pow(_, _)
Pow(b, e) == IF e = 0 THEN 1 ELSE b * Pow(b, e - 1)

\* Math.pow(multiplier, n)
MathPow(x, n) == Frac(Pow(x.num, n), Pow(x.den, n))

\* Math.min
MathMin(x, y) == IF Leq(x, y) THEN x ELSE y

\* Math.max
MathMax(a, b) == IF a > b THEN a ELSE b

\* Math.round: the nearest integer, a half rounds up
MathRound_Floor(x) == x.num \div x.den
MathRound(x) == (2 * x.num + x.den) \div (2 * x.den)

\* lines 25-41
calculateBackoff(attempt, config, random) ==
    LET exponentialDelay == Times(Frac(config.baseDelayMs, 1),
                                  MathPow(config.multiplier, attempt - 1))
        cappedDelay == MathMin(exponentialDelay, Frac(config.maxDelayMs, 1))
        jitter == Times(Times(cappedDelay, config.jitterFactor),
                        Plus(Times(random, Frac(2, 1)), Frac(-1, 1)))
    IN  MathMax(0, MathRound(Plus(cappedDelay, jitter)))

\* the call returns
CalculateBackoff ==
    /\ backoff.status = "called"
    /\ backoff' = [backoff EXCEPT !.status = "returned",
                                  !.result = calculateBackoff(backoff.attempt, backoff.config,
                                                              backoff.random)]
    /\ UNCHANGED <<diffVars, local, execVars, remoteVars, retry, breaker, callVars>>

\* the calls of calculateBackoff: configurations with the defaults of lines
\* 11-17 among them, and values of Math.random(), which are in [0, 1)
BackoffCalls ==
    {[status |-> "called", attempt |-> a, random |-> r, result |-> 0,
      config |-> [baseDelayMs |-> b, maxDelayMs |-> mx, multiplier |-> mu,
                  jitterFactor |-> j]] :
        a \in 1..MaxBackoffAttempt,
        r \in {Frac(0, 1), Frac(1, 2), Frac(3, 4)},
        b \in {-1, 1, 1000},
        mx \in {2000, 30000},
        mu \in {Frac(1, 1), Frac(2, 1), Frac(3, 2)},
        j \in {Frac(0, 1), Frac(1, 10)}}

----------------------------------------------------------------------------
(* retry.js: a call of executeWithCircuitBreaker, one loop iteration at a  *)
(* time.  Date.now() is an input: the time read at line 206 is any number  *)
(* of milliseconds after the one stored at line 229.                       *)

MaxOps == 5          \* operations in the list handed to executeWithCircuitBreaker
MaxFailuresBound == 2 \* maxFailures is 1..MaxFailuresBound
MaxElapsed == 1      \* milliseconds between a failure and the next iteration

\* an operation resolves at every invocation ("db"), or rejects with the same
\* error at every invocation
OpKinds == {"db", "retryable", "fatal"}

\* lines 220-223: withRetry(operation, {...retryConfig, shouldRetry: isRetryableError})
RunOperation(kind, maxAttempts) ==
    withRetry([a \in 1..maxAttempts |-> kind], TRUE, maxAttempts, 1)

\* line 207
CircuitOpen_Never(timeSinceFailure, resetAfterMs) == FALSE
CircuitOpen(timeSinceFailure, resetAfterMs) == timeSinceFailure < resetAfterMs

\* lines 232-233: failures.length / (i + 1) >= failureThreshold && i >= maxFailures
RateTrips_Late(failed, i, failureThreshold, maxFailures) ==
    Leq(failureThreshold, Frac(failed, i + 1)) /\ i > maxFailures
RateTrips(failed, i, failureThreshold, maxFailures) ==
    Leq(failureThreshold, Frac(failed, i + 1)) /\ i >= maxFailures

\* lines 201-242: one iteration of the for loop
CircuitBreakerIteration ==
    /\ breaker.status = "running"
    /\ breaker.i < Len(breaker.operations)
    /\ \E timeSinceFailure \in 0..MaxElapsed :
         LET i == breaker.i
             checked == breaker.consecutiveFailures >= breaker.maxFailures
             since == IF breaker.consecutiveFailures > 0 THEN timeSinceFailure ELSE -1
             r == RunOperation(breaker.operations[i + 1], breaker.maxAttempts)
             ran == [breaker EXCEPT
                       !.log = Append(@, [index |-> i, ok |-> r.ok, invocations |-> r.sends,
                                          since |-> since])]
             failed == Len(breaker.failures) + 1
         IN  /\ (breaker.consecutiveFailures = 0 => timeSinceFailure = 0)
             /\ breaker' =
                  IF checked /\ CircuitOpen(timeSinceFailure, breaker.resetAfterMs)
                  THEN [breaker EXCEPT !.circuitBroken = TRUE, !.status = "returned",
                                       !.tripped = "open"]
                  ELSE IF r.ok
                  THEN [ran EXCEPT !.successes = Append(@, [index |-> i, result |-> ValueOf(i)]),
                                   !.consecutiveFailures = 0,
                                   !.i = i + 1]
                  ELSE IF RateTrips(failed, i, breaker.failureThreshold, breaker.maxFailures)
                  THEN [ran EXCEPT !.failures = Append(@, [index |-> i,
                                                           error |-> r.error.message]),
                                   !.consecutiveFailures =
                                       (IF checked THEN 0 ELSE @) + 1,
                                   !.circuitBroken = TRUE,
                                   !.status = "returned",
                                   !.tripped = "rate"]
                  ELSE [ran EXCEPT !.failures = Append(@, [index |-> i,
                                                           error |-> r.error.message]),
                                   !.consecutiveFailures =
                                       (IF checked THEN 0 ELSE @) + 1,
                                   !.i = i + 1]
    /\ UNCHANGED <<diffVars, local, execVars, remoteVars, retry, backoff, callVars>>

CircuitBreakerReturn_Early ==
    /\ breaker.status = "running"
    /\ breaker.i >= Len(breaker.operations) - 1
    /\ breaker' = [breaker EXCEPT !.status = "returned"]
    /\ UNCHANGED <<diffVars, local, execVars, remoteVars, retry, backoff, callVars>>

\* line 244, after the last operation
CircuitBreakerReturn ==
    /\ breaker.status = "running"
    /\ breaker.i >= Len(breaker.operations)
    /\ breaker' = [breaker EXCEPT !.status = "returned"]
    /\ UNCHANGED <<diffVars, local, execVars, remoteVars, retry, backoff, callVars>>

\* the calls of executeWithCircuitBreaker
BreakerCalls ==
    {[status |-> "running", operations |-> ops, maxFailures |-> mf, resetAfterMs |-> ra,
      failureThreshold |-> th, maxAttempts |-> MaxAttemptsBound, i |-> 0,
      consecutiveFailures |-> 0, successes |-> <<>>, failures |-> <<>>,
      circuitBroken |-> FALSE, tripped |-> "", log |-> <<>>] :
        ops \in SeqsUpTo(OpKinds, MaxOps), mf \in 1..MaxFailuresBound,
        ra \in 0..MaxElapsed,
        th \in {Frac(1, 2), Frac(1, 1)}}

----------------------------------------------------------------------------
(* The calls of retry.js, each from any of its inputs                      *)

InitRetry ==
    /\ schema = [pk |-> <<"id">>, remoteCols |-> {"id", "name"}, localCols |-> {"id", "name"},
                 localExists |-> TRUE]
    /\ remote = <<>>
    /\ local = [t \in Tables |-> <<>>]
    /\ opts = [chunkSize |-> 1, useIncremental |-> TRUE, streamingMode |-> TRUE,
               primaryKey |-> NoOverride, batchSize |-> 1, continueOnError |-> FALSE,
               maxAttempts |-> DefaultMaxAttempts]
    /\ schemaDiffs = <<>>
    /\ dataDiffs = <<>>
    /\ DiffInitIdle
    /\ ExecInit(0)
    /\ RemoteInitIdle
    /\ CallInitIdle
    /\ \/ retry \in RetryCalls /\ backoff = [status |-> "idle"] /\ breaker = [status |-> "idle"]
       \/ retry = [status |-> "idle"] /\ backoff \in BackoffCalls /\ breaker = [status |-> "idle"]
       \/ retry = [status |-> "idle"] /\ backoff = [status |-> "idle"] /\ breaker \in BreakerCalls

NextRetry ==
    \/ WithRetryAttempt
    \/ WithRetryFallThrough
    \/ CalculateBackoff
    \/ CircuitBreakerIteration
    \/ CircuitBreakerReturn

SpecRetry == InitRetry /\ [][NextRetry]_vars

\* fn settles and sleep resolves, so a started iteration ends
SpecRetryFair == SpecRetry /\ WF_vars(NextRetry)

----------------------------------------------------------------------------
(* Properties of withRetry                                                 *)

RetryStarted == retry.status # "idle"
RetryEnded == retry.status \in {"returned", "thrown"}

\* the invocations of fn that rejected with the SQL syntax error
SyntaxFailures == {k \in 1..retry.invoked : retry.script[k] = "fatal"}

\* C16: under withRetry with shouldRetry = isRetryableError, an invocation that
\* fails with an error matching none of the retryable patterns (the SQL syntax
\* error) is the last one and its error is rethrown; when it is the first
\* invocation, fn was invoked exactly once, with no sleep and no onRetry call.
C16_TerminalErrorNotRetried ==
    (RetryStarted /\ retry.shouldRetry = "isRetryableError") =>
        \A k \in SyntaxFailures :
            /\ retry.status = "thrown"
            /\ retry.invoked = k
            /\ retry.error = SyntaxError
            /\ (k = 1 => retry.sleeps = 0 /\ retry.onRetryCalls = 0)

C16_Witness ==
    /\ RetryStarted
    /\ retry.shouldRetry = "isRetryableError"
    /\ retry.onRetry = "resolves"
    /\ retry.maxAttempts = 2
    /\ retry.script[1] = "fatal"
    /\ retry.status = "thrown"
    /\ retry.invoked = 1

\* every attempt allowed fails with an error the classifier retries
AllRetryable ==
    \A k \in 1..retry.maxAttempts : retry.script[k] \in {"retryable", "deadlock", "reset"}

WithRetryBounded ==
    /\ retry.invoked <= retry.maxAttempts
    /\ retry.status = "returned" =>
          /\ retry.invoked >= 1
          /\ retry.script[retry.invoked] = "db"
          /\ \A k \in 1..(retry.invoked - 1) : retry.script[k] # "db"
          /\ retry.value = ValueOf(retry.invoked)
    /\ (RetryEnded /\ AllRetryable /\ retry.maxAttempts >= 1) =>
          /\ retry.status = "thrown"
          /\ retry.invoked = retry.maxAttempts
          /\ retry.sleeps = retry.maxAttempts - 1
          /\ retry.error = ErrorOf(retry.script[retry.maxAttempts])

\* C17: withRetry terminates; it invokes fn at most maxAttempts times; it stops
\* at the first success and returns that attempt's value; when every attempt
\* fails with a retryable error it throws the error of the last attempt after
\* exactly maxAttempts invocations and maxAttempts - 1 sleeps.
C17_WithRetryTerminates ==
    /\ [](RetryStarted => WithRetryBounded)
    /\ (RetryStarted ~> RetryEnded)

C17_Witness ==
    /\ RetryStarted
    /\ retry.maxAttempts = 2
    /\ retry.script[1] = "retryable" /\ retry.script[2] = "deadlock"
    /\ retry.status = "thrown"
    /\ retry.invoked = 2
    /\ retry.sleeps = 1
    /\ retry.error = Deadlock

----------------------------------------------------------------------------
(* Properties of calculateBackoff                                          *)

BackoffReturned == backoff.status = "returned"

\* jitterFactor is 0, or Math.random() is 1/2
ZeroJitter ==
    \/ backoff.config.jitterFactor.num = 0
    \/ 2 * backoff.random.num = backoff.random.den

\* baseDelayMs * multiplier^(attempt-1), as a fraction
Exponential ==
    Frac(backoff.config.baseDelayMs * Pow(backoff.config.multiplier.num, backoff.attempt - 1),
         Pow(backoff.config.multiplier.den, backoff.attempt - 1))

ExceedsMax == Exponential.num > backoff.config.maxDelayMs * Exponential.den

\* min(baseDelayMs * multiplier^(attempt-1), maxDelayMs), as a fraction
CappedExponential == IF ExceedsMax THEN Frac(backoff.config.maxDelayMs, 1) ELSE Exponential

\* n is the integer nearest to x, a half rounding up
Nearest(n, x) == 2 * x.num - x.den < 2 * n * x.den /\ 2 * n * x.den <= 2 * x.num + x.den

ScenarioE ==
    /\ backoff.config.baseDelayMs = 1000
    /\ backoff.config.multiplier = Frac(2, 1)
    /\ backoff.attempt = 3

\* C18 as stated: with zero jitter the result equals
\* min(baseDelayMs * multiplier^(attempt-1), maxDelayMs).
C18_ExactMinimum ==
    (BackoffReturned /\ ZeroJitter) =>
        backoff.result * CappedExponential.den = CappedExponential.num

\* C18, amended: with zero jitter the result is that minimum rounded to the
\* nearest integer (a half rounds up) and never below 0; base 1000, multiplier
\* 2, attempt 3 give exactly 4000 when the maximum allows it; the result is
\* the configured maximum whenever the exponential value exceeds it.
C18_RoundedMinimum ==
    (BackoffReturned /\ ZeroJitter) =>
        /\ IF 2 * CappedExponential.num < CappedExponential.den
           THEN backoff.result = 0
           ELSE Nearest(backoff.result, CappedExponential)
        /\ (ScenarioE /\ ~ExceedsMax) => backoff.result = 4000
        /\ ExceedsMax => backoff.result = backoff.config.maxDelayMs

C18_Witness ==
    /\ BackoffReturned
    /\ backoff.config = [baseDelayMs |-> 1000, maxDelayMs |-> 30000,
                         multiplier |-> Frac(3, 2), jitterFactor |-> Frac(0, 1)]
    /\ backoff.attempt = 5
    /\ backoff.result = 5063

----------------------------------------------------------------------------
(* Properties of executeWithCircuitBreaker.  breaker.log holds the         *)
(* operations invoked so far, in order: log[p] is the operation of index   *)
(* p - 1, with the time since the failure before it when there is one.     *)

BreakerStarted == breaker.status # "idle"
Invoked == Len(breaker.log)
FailedAt(p) == ~breaker.log[p].ok

\* the failures in a row that end at the p-th operation
RECURSIVE FailuresInARow(_)
FailuresInARow(p) ==
    IF p = 0 \/ ~FailedAt(p) THEN 0 ELSE FailuresInARow(p - 1) + 1

\* the time at which the p-th operation is invoked, and at which it fails
RECURSIVE TimeOf(_)
TimeOf(p) ==
    IF p = 0 THEN 0
    ELSE TimeOf(p - 1) + (IF breaker.log[p].since < 0 THEN 0 ELSE breaker.log[p].since)

\* the operation whose failure made maxFailures failures in the row that
\* ends at the p-th operation
TrippedBy(p) == p - FailuresInARow(p) + breaker.maxFailures

SkippedWhenOpen == breaker.tripped = "open"

\* C19: once maxFailures operations in a row have failed, no later operation
\* is invoked before resetAfterMs has elapsed since then; circuitBroken is true
\* when operations were skipped this way; a success resets the
\* consecutive-failure count to zero.
C19_CooldownGatesNext ==
    BreakerStarted =>
        /\ \A p \in 2..Invoked :
              FailuresInARow(p - 1) >= breaker.maxFailures =>
                  TimeOf(p) - TimeOf(TrippedBy(p - 1)) >= breaker.resetAfterMs
        /\ SkippedWhenOpen =>
              /\ breaker.circuitBroken
              /\ breaker.status = "returned"
              /\ Invoked < Len(breaker.operations)
              /\ FailuresInARow(Invoked) >= breaker.maxFailures
        /\ (Invoked > 0 /\ breaker.log[Invoked].ok) => breaker.consecutiveFailures = 0

C19_Witness ==
    /\ BreakerStarted
    /\ breaker.maxFailures = 2
    /\ breaker.resetAfterMs = 1
    /\ breaker.operations = <<"fatal", "db", "retryable", "fatal", "db">>
    /\ Invoked = 4
    /\ SkippedWhenOpen
    /\ breaker.circuitBroken

\* the failure rate after the p-th operation is at least failureThreshold
RateReached(p) ==
    Leq(breaker.failureThreshold, Frac(Cardinality({q \in 1..p : FailedAt(q)}), p))

\* C20 as stated: whenever an operation fails and the failure rate so far is
\* at least failureThreshold, circuitBroken is set and no later operation is
\* invoked.
C20_RateAlwaysTrips ==
    BreakerStarted =>
        \A p \in 1..Invoked :
            (FailedAt(p) /\ RateReached(p)) => breaker.circuitBroken /\ Invoked = p

\* C20, amended: whenever an operation whose index is at least maxFailures
\* fails and the failure rate so far is at least failureThreshold, circuitBroken
\* is set and no later operation is invoked.
C20_RateTripsAfterWarmUp ==
    BreakerStarted =>
        \A p \in 1..Invoked :
            (FailedAt(p) /\ RateReached(p) /\ p - 1 >= breaker.maxFailures) =>
                breaker.circuitBroken /\ Invoked = p /\ breaker.status = "returned"

C20_Witness ==
    /\ BreakerStarted
    /\ breaker.maxFailures = 2
    /\ breaker.failureThreshold = Frac(1, 2)
    /\ breaker.operations = <<"fatal", "db", "fatal", "db">>
    /\ Invoked = 3
    /\ breaker.tripped = "rate"
    /\ breaker.circuitBroken

----------------------------------------------------------------------------
(* data-diff.js: a call of compareAllData, one table at a time.  What      *)
(* diffTableData does for a table is an input: it returns a diff, or one   *)
(* of its awaited calls rejects and the error leaves diffTableData.        *)

MaxTables == 3       \* tables handed to compareAllData

\* what diffTableData meets for a table: nothing, or an error at one of its calls
DiffOutcomes == {[step |-> "return", error |-> NoError],
                 [step |-> "getTableSchema", error |-> SyntaxError],
                 [step |-> "getTableDataChunked", error |-> LockWait],
                 [step |-> "localWriter.query", error |-> ConnReset]}

\* lines 651-655: the record pushed by the catch block
errorDiff(tableName, err) ==
    [tableName |-> tableName, error |-> err.message,
     stats |-> [inserts |-> 0, updates |-> 0, deletes |-> 0]]

\* lines 641-656: the try and its catch
tableDiff(tableName, outcome) ==
    IF outcome.step = "return" THEN KeyedDiff(tableName, 1, 0, 0)
    ELSE errorDiff(tableName, outcome.error)

\* line 640: the loop goes on to the next table, whatever the table met
nextTable_StopsOnError(k, outcome) == IF outcome.step = "return" THEN k + 1 ELSE MaxTables + 1
nextTable(k, outcome) == k + 1

\* lines 640-657: one iteration of the for loop
CompareTable ==
    /\ fanout.status = "running"
    /\ fanout.k <= Len(fanout.tables)
    /\ LET tableName == fanout.tables[fanout.k]
           outcome == fanout.outcomes[fanout.k]
       IN  fanout' = [fanout EXCEPT !.diffs = Append(@, tableDiff(tableName, outcome)),
                                    !.k = nextTable(@, outcome)]
    /\ UNCHANGED <<diffVars, local, execVars, remoteVars, retry, backoff, breaker>>
    /\ UNCHANGED <<confirm, sdiff, reader, cmp>>

\* line 660
CompareReturn ==
    /\ fanout.status = "running"
    /\ fanout.k > Len(fanout.tables)
    /\ fanout' = [fanout EXCEPT !.status = "returned"]
    /\ UNCHANGED <<diffVars, local, execVars, remoteVars, retry, backoff, breaker>>
    /\ UNCHANGED <<confirm, sdiff, reader, cmp>>

\* the calls of compareAllData: distinct tables in any order
CompareCalls ==
    {[status |-> "running", tables |-> ts, outcomes |-> os, k |-> 1, diffs |-> <<>>] :
        ts \in {q \in SeqsUpTo({"t1", "t2", "t3"}, MaxTables) :
                    \A i, j \in 1..Len(q) : i # j => q[i] # q[j]},
        os \in [1..MaxTables -> DiffOutcomes]}

----------------------------------------------------------------------------
(* preview.js: detectDestructiveChanges and interactiveConfirm.  What the  *)
(* user types at a prompt is an input.                                     *)

LARGE_DELETE_THRESHOLD == 100

\* diff.fullReplace, undefined on the records of failed tables
fullReplaceOf(d) == "fullReplace" \in DOMAIN d /\ d.fullReplace

Filter(q, Keep(_)) == SelectSeq(q, Keep)
MapSeq(q, F(_)) == [i \in 1..Len(q) |-> F(q[i])]

largeDelete_Above(d) == d.stats.deletes > LARGE_DELETE_THRESHOLD
\* line 175
largeDelete(d) == d.stats.deletes >= LARGE_DELETE_THRESHOLD

\* lines 144-187
detectDestructiveChanges(sDiffs, dDiffs) ==
    LET columnRemovals ==
            MapSeq(Filter(sDiffs, LAMBDA d : Len(d.columnsToRemove) > 0),
                   LAMBDA d : [table |-> d.tableName,
                               columns |-> MapSeq(d.columnsToRemove, LAMBDA c : c.name)])
        fullReplacements ==
            MapSeq(Filter(dDiffs, fullReplaceOf),
                   LAMBDA d : [table |-> d.tableName, rowCount |-> d.stats.inserts])
        largeDeletes ==
            MapSeq(Filter(dDiffs, largeDelete),
                   LAMBDA d : [table |-> d.tableName, deleteCount |-> d.stats.deletes])
    IN  [hasDestructive |-> Len(columnRemovals) + Len(fullReplacements) + Len(largeDeletes) > 0,
         columnRemovals |-> columnRemovals,
         fullReplacements |-> fullReplacements,
         largeDeletes |-> largeDeletes]

\* String.prototype.trim on an answer: a sequence of pieces of text, " " being
\* white space
RECURSIVE trimEnd(_)
trimEnd(a) == IF a # <<>> /\ a[Len(a)] = " " THEN trimEnd(SubSeq(a, 1, Len(a) - 1)) ELSE a
trimBoth(a) == trimEnd(trim(a))

\* String.prototype.toLowerCase on one piece of text
toLowerCase(piece) ==
    CASE piece = "YES" -> "yes"
      [] piece = "Y" -> "y"
      [] piece = "CONFIRM" -> "confirm"
      [] OTHER -> piece

confirmed_IgnoreCase(answer) == MapSeq(trimBoth(answer), toLowerCase) = <<"confirm">>
\* line 238: answer.trim() === 'CONFIRM'
confirmed(answer) == trimBoth(answer) = <<"CONFIRM">>

\* d.stats.inserts > 0 || d.stats.updates > 0 || d.stats.deletes > 0
hasDataChange(d) == d.stats.inserts > 0 \/ d.stats.updates > 0 \/ d.stats.deletes > 0
hasSchemaChange(d) == d.hasChanges

Rejected == [approved |-> FALSE, schemaApproved |-> <<>>, dataApproved |-> <<>>]
ApprovedAll(c) == [approved |-> TRUE,
                   schemaApproved |-> Filter(c.schemaDiffs, hasSchemaChange),
                   dataApproved |-> c.dataDiffs]

\* the prompts of the per-table flow, lines 319-347, in the order they are asked
PerTablePrompts(c) ==
    MapSeq(Filter(c.schemaDiffs, hasSchemaChange), LAMBDA d : [kind |-> "schema", diff |-> d])
        \o MapSeq(Filter(c.dataDiffs, hasDataChange), LAMBDA d : [kind |-> "table", diff |-> d])

\* lines 303-357, up to the first ordinary prompt
AfterDestructive(c) ==
    IF PerTablePrompts(c) = <<>>
    THEN [c EXCEPT !.status = "returned", !.result = Rejected]
    ELSE IF c.perTable
    THEN [c EXCEPT !.status = "perTable", !.queue = PerTablePrompts(c)]
    ELSE [c EXCEPT !.status = "bulk"]

\* lines 266-287
InteractiveConfirm ==
    /\ confirm.status = "called"
    /\ LET destructive == detectDestructiveChanges(confirm.schemaDiffs, confirm.dataDiffs)
           c == [confirm EXCEPT !.destructive = destructive]
       IN  confirm' =
             IF confirm.yolo
             THEN [c EXCEPT !.status = "returned", !.result = ApprovedAll(c)]
             ELSE IF destructive.hasDestructive
             THEN [c EXCEPT !.status = "destructive"]
             ELSE AfterDestructive(c)
    /\ UNCHANGED <<diffVars, local, execVars, remoteVars, retry, backoff, breaker>>
    /\ UNCHANGED <<fanout, sdiff, reader, cmp>>

\* lines 119-132: confirm, which confirmTable (lines 249-257) calls
confirmYes(answer) ==
    MapSeq(trimBoth(answer), toLowerCase) \in {<<"y">>, <<"yes">>}

DestructiveAnswers == {<<"CONFIRM">>, <<" ", "CONFIRM", " ">>, <<"confirm">>, <<"y">>, <<>>}
OrdinaryAnswers == {<<"y">>, <<"YES", " ">>, <<"n">>}

\* lines 289-317 with confirmDestructiveChanges, lines 194-241
ConfirmDestructiveChanges ==
    /\ confirm.status = "destructive"
    /\ \E answer \in DestructiveAnswers :
         LET c == [confirm EXCEPT !.asked = Append(@, [prompt |-> "destructive", answer |-> answer])]
         IN  confirm' =
               IF ~confirmed(answer)
               THEN [c EXCEPT !.status = "returned", !.result = Rejected]
               ELSE AfterDestructive(c)
    /\ UNCHANGED <<diffVars, local, execVars, remoteVars, retry, backoff, breaker>>
    /\ UNCHANGED <<fanout, sdiff, reader, cmp>>

\* lines 319-354: one prompt of the per-table flow, and the return after the last
ConfirmPerTable ==
    /\ confirm.status = "perTable"
    /\ \E answer \in OrdinaryAnswers :
         LET q == Head(confirm.queue)
             c == [confirm EXCEPT
                     !.asked = Append(@, [prompt |-> q.kind, answer |-> answer]),
                     !.queue = Tail(@),
                     !.schemaApproved =
                         IF q.kind = "schema" /\ confirmYes(answer) THEN Append(@, q.diff) ELSE @,
                     !.dataApproved =
                         IF q.kind = "table" /\ confirmYes(answer) THEN Append(@, q.diff) ELSE @]
         IN  confirm' =
               IF c.queue # <<>> THEN c
               ELSE [c EXCEPT !.status = "returned",
                              !.result = [approved |-> Len(c.schemaApproved) > 0
                                                         \/ Len(c.dataApproved) > 0,
                                          schemaApproved |-> c.schemaApproved,
                                          dataApproved |-> c.dataApproved]]
    /\ UNCHANGED <<diffVars, local, execVars, remoteVars, retry, backoff, breaker>>
    /\ UNCHANGED <<fanout, sdiff, reader, cmp>>

\* lines 357-372
ConfirmBulk ==
    /\ confirm.status = "bulk"
    /\ \E answer \in OrdinaryAnswers :
         LET c == [confirm EXCEPT !.asked = Append(@, [prompt |-> "all", answer |-> answer])]
         IN  confirm' = [c EXCEPT !.status = "returned",
                                  !.result = IF confirmYes(answer) THEN ApprovedAll(c) ELSE Rejected]
    /\ UNCHANGED <<diffVars, local, execVars, remoteVars, retry, backoff, breaker>>
    /\ UNCHANGED <<fanout, sdiff, reader, cmp>>

\* the schema diffs and data diffs of up to two tables, as diffTableSchema,
\* diffTableData and compareAllData build them
SchemaDiffShapes(t) ==
    {[tableName |-> t, hasChanges |-> FALSE, columnsToRemove |-> <<>>],
     [tableName |-> t, hasChanges |-> TRUE, columnsToRemove |-> <<>>],
     [tableName |-> t, hasChanges |-> TRUE, columnsToRemove |-> <<[name |-> "note"]>>]}
DataDiffShapes(t) ==
    {[tableName |-> t, fullReplace |-> FALSE,
      stats |-> [inserts |-> 0, updates |-> 0, deletes |-> n]] :
        n \in {0, LARGE_DELETE_THRESHOLD - 1, LARGE_DELETE_THRESHOLD}}
    \cup {[tableName |-> t, fullReplace |-> TRUE,
           stats |-> [inserts |-> 1, updates |-> 0, deletes |-> n]] :
             n \in {0, LARGE_DELETE_THRESHOLD + 1}}
    \cup {errorDiff(t, SyntaxError)}
DiffLists(Shapes(_)) ==
    {<<>>} \cup {<<a>> : a \in Shapes("t1")}
           \cup {<<a, b>> : a \in Shapes("t1"), b \in Shapes("t2")}

ConfirmCalls ==
    {[status |-> "called", schemaDiffs |-> sd, dataDiffs |-> dd, yolo |-> y, perTable |-> pt,
      destructive |-> detectDestructiveChanges(<<>>, <<>>), queue |-> <<>>, asked |-> <<>>,
      schemaApproved |-> <<>>, dataApproved |-> <<>>, result |-> Rejected] :
        sd \in DiffLists(SchemaDiffShapes), dd \in DiffLists(DataDiffShapes),
        y \in BOOLEAN, pt \in BOOLEAN}

----------------------------------------------------------------------------
(* schema-diff.js.  A schema is a record with name, columns (rows of SHOW  *)
(* COLUMNS), indexes (rows of SHOW INDEX) and createStatement; a missing   *)
(* schema is Undefined, a missing list is a missing field.  Text that is   *)
(* built from pieces is the sequence of its pieces.                        *)

TypeError == [message |-> "Cannot read properties of undefined", code |-> "TypeError"]

Returns(v) == [threw |-> FALSE, value |-> v]
Throws(e) == [threw |-> TRUE, error |-> e]

\* lines 108-132
buildColumnDefinition(col) ==
    <<col.Type>>
    \o (IF col.Null = "NO" THEN <<"NOT NULL">> ELSE <<"NULL">>)
    \o (IF col.Default.t \notin {"null", "undefined"}
        THEN IF col.Default = Str("CURRENT_TIMESTAMP")
             THEN <<"DEFAULT", "CURRENT_TIMESTAMP">>
             ELSE <<"DEFAULT", "'", String(col.Default), "'">>
        ELSE IF col.Null = "YES" THEN <<"DEFAULT NULL">> ELSE <<>>)
    \o (IF col.Extra # "" THEN <<col.Extra>> ELSE <<>>)

columnsEqual_TypeOnly(col1, col2) == col1.Type = col2.Type
\* lines 137-144
columnsEqual(col1, col2) ==
    /\ col1.Type = col2.Type
    /\ col1.Null = col2.Null
    /\ col1.Default = col2.Default
    /\ col1.Extra = col2.Extra

\* new Map(columns.map((c) => [c.Field, c])): has and get
HasField(columns, name) == \E i \in 1..Len(columns) : columns[i].Field = name
FieldOf(columns, name) ==
    columns[CHOOSE i \in 1..Len(columns) :
                /\ columns[i].Field = name
                /\ \A j \in (i + 1)..Len(columns) : columns[j].Field # name]

\* lines 149-165: the indexes in the order of their first rows
RECURSIVE groupIndexes(_)
groupIndexes(indexRows) ==
    IF indexRows = <<>> THEN <<>>
    ELSE LET row == indexRows[Len(indexRows)]
             before == groupIndexes(SubSeq(indexRows, 1, Len(indexRows) - 1))
         IN  IF \E i \in 1..Len(before) : before[i].name = row.Key_name
             THEN [i \in 1..Len(before) |->
                     IF before[i].name = row.Key_name
                     THEN [before[i] EXCEPT !.columns = Append(@, row.Column_name)]
                     ELSE before[i]]
             ELSE Append(before, [name |-> row.Key_name, columns |-> <<row.Column_name>>,
                                  unique |-> row.Non_unique = 0])
HasIndex(indexes, name) == \E i \in 1..Len(indexes) : indexes[i].name = name

\* lines 15-24
EmptySchemaDiff(tableName) ==
    [tableName |-> tableName, hasChanges |-> FALSE, createTable |-> FALSE,
     columnsToAdd |-> <<>>, columnsToModify |-> <<>>, columnsToRemove |-> <<>>,
     indexesToAdd |-> <<>>, indexesToRemove |-> <<>>]

skipIndex_None(indexName) == FALSE
\* lines 81 and 93: if (indexName === 'PRIMARY') continue
skipIndex(indexName) == indexName = "PRIMARY"

\* lines 34-100, both schemas with their lists
diffLists(remoteSchema, localSchema) ==
    LET rc == remoteSchema.columns
        lc == localSchema.columns
        ri == groupIndexes(remoteSchema.indexes)
        li == groupIndexes(localSchema.indexes)
        columnsToAdd ==
            MapSeq(Filter(rc, LAMBDA c : ~HasField(lc, c.Field)),
                   LAMBDA c : [name |-> c.Field, type |-> c.Type, nullable |-> c.Null = "YES",
                               default |-> c.Default, extra |-> c.Extra,
                               definition |-> buildColumnDefinition(c)])
        columnsToRemove ==
            MapSeq(Filter(lc, LAMBDA c : ~HasField(rc, c.Field)), LAMBDA c : [name |-> c.Field])
        columnsToModify ==
            MapSeq(Filter(rc, LAMBDA c : HasField(lc, c.Field)
                                            /\ ~columnsEqual(c, FieldOf(lc, c.Field))),
                   LAMBDA c : [name |-> c.Field,
                               from |-> buildColumnDefinition(FieldOf(lc, c.Field)),
                               to |-> buildColumnDefinition(c),
                               remoteCol |-> c, localCol |-> FieldOf(lc, c.Field)])
        indexesToAdd ==
            Filter(ri, LAMBDA x : ~skipIndex(x.name) /\ ~HasIndex(li, x.name))
        indexesToRemove ==
            MapSeq(Filter(li, LAMBDA x : ~skipIndex(x.name) /\ ~HasIndex(ri, x.name)),
                   LAMBDA x : [name |-> x.name])
    IN  [EmptySchemaDiff(remoteSchema.name) EXCEPT
            !.columnsToAdd = columnsToAdd,
            !.columnsToRemove = columnsToRemove,
            !.columnsToModify = columnsToModify,
            !.indexesToAdd = indexesToAdd,
            !.indexesToRemove = indexesToRemove,
            !.hasChanges = Len(columnsToAdd) + Len(columnsToRemove) + Len(columnsToModify)
                             + Len(indexesToAdd) + Len(indexesToRemove) > 0]

IsMissing(schemaValue) == schemaValue = Undefined

\* lines 14-103: the value returned, or the TypeError of reading a property of
\* undefined
diffTableSchema(remoteSchema, localSchema) ==
    IF IsMissing(remoteSchema) THEN Throws(TypeError)
    ELSE IF IsMissing(localSchema)
    THEN Returns([createTable |-> TRUE, hasChanges |-> TRUE,
                  createStatement |-> remoteSchema.createStatement]
                 @@ EmptySchemaDiff(remoteSchema.name))
    ELSE IF "columns" \notin DOMAIN remoteSchema \/ "columns" \notin DOMAIN localSchema
    THEN Throws(TypeError)
    ELSE IF "indexes" \notin DOMAIN remoteSchema \/ "indexes" \notin DOMAIN localSchema
    THEN Throws(TypeError)
    ELSE Returns(diffLists(remoteSchema, localSchema))

\* `name`; BQ stands for the backquote character
BQ == "BQ"
Tick(name) == <<BQ, name, BQ>>
RECURSIVE JoinTicked(_)
JoinTicked(columns) ==
    IF columns = <<>> THEN <<>>
    ELSE IF Len(columns) = 1 THEN Tick(columns[1])
    ELSE Tick(columns[1]) \o <<", ">> \o JoinTicked(Tail(columns))

alterOrder_DropsFirst(adds, modifies, drops, addIdx, dropIdx) ==
    drops \o adds \o modifies \o addIdx \o dropIdx
\* lines 181-206: the order of the five loops
alterOrder(adds, modifies, drops, addIdx, dropIdx) ==
    adds \o modifies \o drops \o addIdx \o dropIdx

\* lines 172-209
generateSchemaSQL(d) ==
    IF d.createTable THEN <<d.createStatement>>
    ELSE LET alter == <<"ALTER TABLE ">> \o Tick(d.tableName)
         IN  alterOrder(
                MapSeq(d.columnsToAdd,
                       LAMBDA col : alter \o <<" ADD COLUMN ">> \o Tick(col.name)
                                          \o <<" ">> \o col.definition),
                MapSeq(d.columnsToModify,
                       LAMBDA col : alter \o <<" MODIFY COLUMN ">> \o Tick(col.name)
                                          \o <<" ">> \o col.to),
                MapSeq(d.columnsToRemove,
                       LAMBDA col : alter \o <<" DROP COLUMN ">> \o Tick(col.name)),
                MapSeq(d.indexesToAdd,
                       LAMBDA idx : alter \o <<" ADD ">>
                                          \o <<IF idx.unique THEN "UNIQUE INDEX" ELSE "INDEX">>
                                          \o <<" ">> \o Tick(idx.name)
                                          \o <<" (">> \o JoinTicked(idx.columns) \o <<")">>),
                MapSeq(d.indexesToRemove,
                       LAMBDA idx : alter \o <<" DROP INDEX ">> \o Tick(idx.name)))

\* a call of diffTableSchema
DiffTableSchemaCall ==
    /\ sdiff.status = "called"
    /\ LET r == diffTableSchema(sdiff.remoteSchema, sdiff.localSchema)
       IN  sdiff' = IF r.threw
                    THEN [sdiff EXCEPT !.status = "threw", !.error = r.error]
                    ELSE [sdiff EXCEPT !.status = "returned", !.diff = r.value]
    /\ UNCHANGED <<diffVars, local, execVars, remoteVars, retry, backoff, breaker>>
    /\ UNCHANGED <<fanout, confirm, reader, cmp>>

\* a call of generateSchemaSQL with the diff
GenerateSchemaSQLCall ==
    /\ sdiff.status = "returned"
    /\ sdiff' = [sdiff EXCEPT !.status = "generated", !.statements = generateSchemaSQL(sdiff.diff)]
    /\ UNCHANGED <<diffVars, local, execVars, remoteVars, retry, backoff, breaker>>
    /\ UNCHANGED <<fanout, confirm, reader, cmp>>

Col(field, type, null, default, extra) ==
    [Field |-> field, Type |-> type, Null |-> null, Default |-> default, Extra |-> extra]
IdCol == Col("id", "int", "NO", Null, "auto_increment")
NameCols == {Col("name", "varchar(10)", "YES", Null, ""),
             Col("name", "text", "YES", Null, ""),
             Col("name", "varchar(10)", "NO", Null, ""),
             Col("name", "varchar(10)", "YES", Str("x"), ""),
             Col("name", "varchar(10)", "YES", Null, "on update x")}
NoteCol == Col("note", "text", "YES", Null, "")
StampCol == Col("at", "datetime", "NO", Str("CURRENT_TIMESTAMP"), "")
ColumnLists ==
    {<<IdCol>> \o a \o b : a \in {<<>>} \cup {<<c>> : c \in NameCols},
                           b \in {<<>>, <<NoteCol>>, <<StampCol>>}}
IndexRow(key, column, nonUnique) ==
    [Key_name |-> key, Column_name |-> column, Non_unique |-> nonUnique]
IndexLists ==
    {<<IndexRow("PRIMARY", "id", 0)>> \o a \o b :
        a \in {<<>>, <<IndexRow("by_name", "name", 1)>>,
               <<IndexRow("by_name", "name", 0), IndexRow("by_name", "id", 0)>>},
        b \in {<<>>, <<IndexRow("by_note", "note", 1)>>}}
    \cup {<<>>, <<IndexRow("by_name", "name", 1)>>}
CreateText == <<"CREATE TABLE ">> \o Tick("t1") \o <<" (...)">>
Schemas ==
    {[name |-> "t1", columns |-> c, indexes |-> x, createStatement |-> CreateText] :
        c \in ColumnLists, x \in IndexLists}
\* schemas without their column list or without their index list
PartialSchemas ==
    {[name |-> "t1", indexes |-> <<>>, createStatement |-> CreateText],
     [name |-> "t1", columns |-> <<IdCol>>, createStatement |-> CreateText]}

SchemaDiffCalls ==
    {[status |-> "called", remoteSchema |-> r, localSchema |-> l,
      diff |-> EmptySchemaDiff(""), error |-> NoError, statements |-> <<>>] :
        r \in Schemas \cup PartialSchemas \cup {Undefined},
        l \in Schemas \cup PartialSchemas \cup {Undefined}}

----------------------------------------------------------------------------
(* The chunked reads: RemoteReader.getTableDataChunked and the local delete *)
(* scan of streamingTableDiff, over a table that does not change.           *)

MaxReadRows == 4     \* rows of the table that is read

hasMore_WhileRows(rows, chunkSize) == Len(rows) > 0
\* part_005 line 209 and data-diff.js line 161: rows.length === chunkSize
hasMore(rows, chunkSize) == Len(rows) = chunkSize

\* part_005 lines 194-212: one turn of the while loop of the generator
ReadChunk ==
    /\ reader.status = "running"
    /\ reader.loop = "getTableDataChunked"
    /\ LET rows == getTableData(reader.table, reader.chunkSize, reader.offset, reader.orderBy)
           more == hasMore(rows, reader.chunkSize)
       IN  reader' = [reader EXCEPT
                         !.chunks = IF Len(rows) > 0 THEN Append(@, rows) ELSE @,
                         !.offset = IF Len(rows) > 0 THEN @ + Len(rows) ELSE @,
                         !.fetched = Append(@, Len(rows)),
                         !.status = IF more THEN "running" ELSE "done"]
    /\ UNCHANGED <<diffVars, local, execVars, remoteVars, retry, backoff, breaker>>
    /\ UNCHANGED <<fanout, confirm, sdiff, cmp>>

\* data-diff.js lines 145-162: one turn of the local delete scan; chunks holds
\* the chunks whose rows the inner loop went through
ScanLocalChunk ==
    /\ reader.status = "running"
    /\ reader.loop = "localScan"
    /\ LET localChunk == getTableData(reader.table, reader.chunkSize, reader.offset,
                                      reader.orderBy)
           more == hasMore(localChunk, reader.chunkSize)
       IN  reader' = [reader EXCEPT
                         !.chunks = IF Len(localChunk) > 0 THEN Append(@, localChunk) ELSE @,
                         !.offset = @ + Len(localChunk),
                         !.fetched = Append(@, Len(localChunk)),
                         !.status = IF more THEN "running" ELSE "done"]
    /\ UNCHANGED <<diffVars, local, execVars, remoteVars, retry, backoff, breaker>>
    /\ UNCHANGED <<fanout, confirm, sdiff, cmp>>

\* tables of n rows, stored in key order or against it
StoredTables ==
    {[i \in 1..n |-> R(i, "a")] : n \in 0..MaxReadRows}
    \cup {[i \in 1..n |-> R(n + 1 - i, "b")] : n \in 2..MaxReadRows}

ReadCalls ==
    {[status |-> "running", loop |-> l, table |-> t, chunkSize |-> c, orderBy |-> o,
      offset |-> 0, chunks |-> <<>>, fetched |-> <<>>] :
        l \in {"getTableDataChunked", "localScan"}, t \in StoredTables,
        c \in 1..(MaxChunk + 1), o \in {"id", ""}}

\* part_005 lines 194-196 and data-diff.js lines 142-143: a read starts at
\* offset 0
ReadStart ==
    /\ reader.status = "new"
    /\ reader' \in ReadCalls
    /\ UNCHANGED <<diffVars, local, execVars, remoteVars, retry, backoff, breaker>>
    /\ UNCHANGED <<fanout, confirm, sdiff, cmp>>

InitRead ==
    /\ schema = [pk |-> <<"id">>, remoteCols |-> {"id", "name"}, localCols |-> {"id", "name"},
                 localExists |-> TRUE]
    /\ remote = <<>>
    /\ local = [t \in Tables |-> <<>>]
    /\ opts = [chunkSize |-> 1, useIncremental |-> TRUE, streamingMode |-> TRUE,
               primaryKey |-> NoOverride, batchSize |-> 1, continueOnError |-> FALSE,
               maxAttempts |-> DefaultMaxAttempts]
    /\ schemaDiffs = <<>>
    /\ dataDiffs = <<>>
    /\ DiffInitIdle
    /\ ExecInit(0)
    /\ RemoteInitIdle
    /\ retry = [status |-> "idle"]
    /\ backoff = [status |-> "idle"]
    /\ breaker = [status |-> "idle"]
    /\ fanout = [status |-> "idle"]
    /\ confirm = [status |-> "idle"]
    /\ sdiff = [status |-> "idle"]
    /\ cmp = [status |-> "idle"]
    /\ reader = [status |-> "new"]

NextRead ==
    \/ ReadStart
    \/ ReadChunk
    \/ ScanLocalChunk

SpecRead == InitRead /\ [][NextRead]_vars

\* a fetch that was issued completes, and the consumer asks for the next chunk
SpecReadFair == SpecRead /\ WF_vars(NextRead)

----------------------------------------------------------------------------
(* rowsEqual on row objects whose properties have an order: a row object is *)
(* a sequence of [name, value] with distinct names.                         *)

\* Object.keys(row)
keysOf(row) == [i \in 1..Len(row) |-> row[i].name]

sortKeys_Unsorted(keys) == keys
\* Array.prototype.sort() on distinct column names
sortKeys(keys) == SelectSeq(ColSorted, LAMBDA c : \E i \in 1..Len(keys) : keys[i] = c)

\* row[name]
valueOf(row, name) ==
    IF \E i \in 1..Len(row) : row[i].name = name
    THEN row[CHOOSE i \in 1..Len(row) : row[i].name = name].value
    ELSE Undefined

\* data-diff.js lines 493-509
rowsEqualObjects(row1, row2) ==
    LET keys1 == sortKeys(keysOf(row1))
        keys2 == sortKeys(keysOf(row2))
    IN  /\ Len(keys1) = Len(keys2)
        /\ \A i \in 1..Len(keys1) :
              /\ keys1[i] = keys2[i]
              /\ normalizeValue(valueOf(row1, keys1[i])) = normalizeValue(valueOf(row2, keys2[i]))

\* a call rowsEqual(a, b), with the call rowsEqual(b, a) beside it
RowsEqualCall ==
    /\ cmp.status = "called"
    /\ cmp' = [cmp EXCEPT !.status = "returned",
                          !.result = rowsEqualObjects(cmp.a, cmp.b),
                          !.swapped = rowsEqualObjects(cmp.b, cmp.a)]
    /\ UNCHANGED <<diffVars, local, execVars, remoteVars, retry, backoff, breaker>>
    /\ UNCHANGED <<fanout, confirm, sdiff, reader>>

CellValues == {Null, Undefined, Num(1), Str("1"), Str("a"), Date(1)}
RowObjects ==
    {<<>>}
    \cup {<<[name |-> c, value |-> v]>> : c \in {"id", "name"}, v \in CellValues}
    \cup {<<[name |-> cs[1], value |-> v1], [name |-> cs[2], value |-> v2]>> :
            cs \in {<<"id", "name">>, <<"name", "id">>},
            v1 \in CellValues, v2 \in CellValues}

RowsEqualCalls ==
    {[status |-> "called", a |-> a, b |-> b, result |-> FALSE, swapped |-> FALSE] :
        a \in RowObjects, b \in RowObjects}

----------------------------------------------------------------------------
(* The calls of the fan-out, the preview and the helpers, one call at a    *)
(* time.                                                                   *)

InitCalls ==
    /\ schema = [pk |-> <<"id">>, remoteCols |-> {"id", "name"}, localCols |-> {"id", "name"},
                 localExists |-> TRUE]
    /\ remote = <<>>
    /\ local = [t \in Tables |-> <<>>]
    /\ opts = [chunkSize |-> 1, useIncremental |-> TRUE, streamingMode |-> TRUE,
               primaryKey |-> NoOverride, batchSize |-> 1, continueOnError |-> FALSE,
               maxAttempts |-> DefaultMaxAttempts]
    /\ schemaDiffs = <<>>
    /\ dataDiffs = <<>>
    /\ DiffInitIdle
    /\ ExecInit(0)
    /\ RemoteInitIdle
    /\ retry = [status |-> "idle"]
    /\ backoff = [status |-> "idle"]
    /\ breaker = [status |-> "idle"]
    /\ reader = [status |-> "idle"]
    /\ LET idle == [status |-> "idle"]
       IN  \/ fanout \in CompareCalls /\ confirm = idle /\ sdiff = idle /\ cmp = idle
           \/ fanout = idle /\ confirm \in ConfirmCalls /\ sdiff = idle /\ cmp = idle
           \/ fanout = idle /\ confirm = idle /\ sdiff \in SchemaDiffCalls /\ cmp = idle
           \/ fanout = idle /\ confirm = idle /\ sdiff = idle /\ cmp \in RowsEqualCalls

NextCalls ==
    \/ CompareTable
    \/ CompareReturn
    \/ InteractiveConfirm
    \/ ConfirmDestructiveChanges
    \/ ConfirmPerTable
    \/ ConfirmBulk
    \/ DiffTableSchemaCall
    \/ GenerateSchemaSQLCall
    \/ RowsEqualCall

SpecCalls == InitCalls /\ [][NextCalls]_vars

----------------------------------------------------------------------------
\* C21: compareAllData does not throw on a per-table failure and returns one
\* record per requested table in the requested order; a table whose diff throws
\* at any step yields a record with its tableName, the error message and zero
\* stats, and every later table is still diffed.
C21_EveryTableGetsARecord ==
    fanout.status \in {"running", "returned"} =>
        /\ fanout.status = "returned" => Len(fanout.diffs) = Len(fanout.tables)
        /\ Len(fanout.diffs) <= Len(fanout.tables)
        /\ \A i \in 1..Len(fanout.diffs) :
             /\ fanout.diffs[i].tableName = fanout.tables[i]
             /\ IF fanout.outcomes[i].step = "return"
                THEN "error" \notin DOMAIN fanout.diffs[i]
                ELSE fanout.diffs[i] =
                       [tableName |-> fanout.tables[i],
                        error |-> fanout.outcomes[i].error.message,
                        stats |-> [inserts |-> 0, updates |-> 0, deletes |-> 0]]

C21_Witness ==
    /\ fanout.status = "returned"
    /\ Len(fanout.tables) = MaxTables
    /\ fanout.outcomes[1].step = "getTableDataChunked"
    /\ fanout.outcomes[2].step = "return"
    /\ "error" \in DOMAIN fanout.diffs[1]
    /\ "error" \notin DOMAIN fanout.diffs[2]

\* the proposed changes of a call of interactiveConfirm
RemovesColumn(d) == Len(d.columnsToRemove) > 0
DeletesMany(d) == d.stats.deletes >= 100
TablesWhere(q, P(_)) == {q[i].tableName : i \in {j \in 1..Len(q) : P(q[j])}}
ListedTables(list) == {list[i].table : i \in 1..Len(list)}
Detected == confirm.status \in {"destructive", "perTable", "bulk", "returned"}

\* C22: detectDestructiveChanges lists a table under columnRemovals iff its
\* schema diff has a non-empty columnsToRemove, under fullReplacements iff its
\* data diff is flagged fullReplace, under largeDeletes iff its stats.deletes is
\* at least 100; hasDestructive is true iff one of the three lists is non-empty;
\* the diffs handed in are left as they were.
C22_DestructiveLists ==
    /\ [](Detected =>
            LET d == confirm.destructive
            IN  /\ ListedTables(d.columnRemovals) = TablesWhere(confirm.schemaDiffs, RemovesColumn)
                /\ ListedTables(d.fullReplacements) = TablesWhere(confirm.dataDiffs, fullReplaceOf)
                /\ ListedTables(d.largeDeletes) = TablesWhere(confirm.dataDiffs, DeletesMany)
                /\ d.hasDestructive <=> \/ d.columnRemovals # <<>>
                                        \/ d.fullReplacements # <<>>
                                        \/ d.largeDeletes # <<>>)
    /\ [][confirm.status = "called" =>
            /\ confirm'.schemaDiffs = confirm.schemaDiffs
            /\ confirm'.dataDiffs = confirm.dataDiffs]_vars

C22_Witness ==
    /\ Detected
    /\ Len(confirm.dataDiffs) = 2
    /\ confirm.dataDiffs[1].stats.deletes = 99
    /\ confirm.dataDiffs[2].stats.deletes = 100
    /\ confirm.destructive.largeDeletes = <<[table |-> "t2", deleteCount |-> 100]>>
    /\ confirm.destructive.fullReplacements = <<>>
    /\ Len(confirm.destructive.columnRemovals) = 1

Destructive(c) ==
    \/ TablesWhere(c.schemaDiffs, RemovesColumn) # {}
    \/ TablesWhere(c.dataDiffs, fullReplaceOf) # {}
    \/ TablesWhere(c.dataDiffs, DeletesMany) # {}

DestructiveFirst(c) ==
    /\ c.status \in {"perTable", "bulk", "returned"} => c.asked # <<>>
    /\ \A i \in 1..Len(c.asked) : c.asked[i].prompt = "destructive" <=> i = 1

\* C23 as stated: without yolo and with a destructive change proposed, the
\* destructive confirmation is asked before any ordinary one, and unless the
\* answer is exactly CONFIRM the result is approved=false with empty
\* schemaApproved and dataApproved.
C23_ExactlyConfirm ==
    (Detected /\ ~confirm.yolo /\ Destructive(confirm)) =>
        /\ DestructiveFirst(confirm)
        /\ (confirm.status = "returned" /\ confirm.asked[1].answer # <<"CONFIRM">>) =>
               confirm.result = [approved |-> FALSE, schemaApproved |-> <<>>, dataApproved |-> <<>>]

\* C23, amended: without yolo and with a destructive change proposed, the
\* destructive confirmation is asked before any ordinary one, and unless the
\* answer, trimmed of surrounding white space, is exactly CONFIRM, no ordinary
\* confirmation is asked and the result is approved=false with empty
\* schemaApproved and dataApproved.
C23_TrimmedConfirm ==
    (Detected /\ ~confirm.yolo /\ Destructive(confirm)) =>
        /\ DestructiveFirst(confirm)
        /\ (Len(confirm.asked) >= 1 /\ trimBoth(confirm.asked[1].answer) # <<"CONFIRM">>) =>
               /\ confirm.status = "returned"
               /\ Len(confirm.asked) = 1
               /\ confirm.result = [approved |-> FALSE, schemaApproved |-> <<>>, dataApproved |-> <<>>]

C23_Witness ==
    /\ confirm.status = "returned"
    /\ ~confirm.yolo
    /\ Destructive(confirm)
    /\ confirm.asked = <<[prompt |-> "destructive", answer |-> <<"confirm">>]>>
    /\ ~confirm.result.approved

\* the statements from position a + 1 on are one per entry of list, of one verb,
\* naming the entries in order
Segment(statements, a, list, verb) ==
    \A i \in 1..Len(list) :
        /\ statements[a + i][5] = verb
        /\ statements[a + i][7] = list[i].name
        /\ statements[a + i][3] = sdiff.diff.tableName

\* C24: generateSchemaSQL returns exactly one statement, the supplied creation
\* text, when createTable is set; otherwise one statement per diff entry in the
\* order all ADD COLUMN, all MODIFY COLUMN, all DROP COLUMN, all ADD INDEX, all
\* DROP INDEX, and an empty list for a diff with no entries.
C24_StatementOrder ==
    sdiff.status = "generated" =>
        LET d == sdiff.diff
            st == sdiff.statements
            n1 == Len(d.columnsToAdd)
            n2 == n1 + Len(d.columnsToModify)
            n3 == n2 + Len(d.columnsToRemove)
            n4 == n3 + Len(d.indexesToAdd)
        IN  IF d.createTable
            THEN st = <<sdiff.remoteSchema.createStatement>>
            ELSE /\ Len(st) = n4 + Len(d.indexesToRemove)
                 /\ Segment(st, 0, d.columnsToAdd, " ADD COLUMN ")
                 /\ Segment(st, n1, d.columnsToModify, " MODIFY COLUMN ")
                 /\ Segment(st, n2, d.columnsToRemove, " DROP COLUMN ")
                 /\ \A i \in 1..Len(d.indexesToAdd) :
                       /\ st[n3 + i][5] = " ADD "
                       /\ st[n3 + i][6] \in {"INDEX", "UNIQUE INDEX"}
                       /\ st[n3 + i][9] = d.indexesToAdd[i].name
                 /\ Segment(st, n4, d.indexesToRemove, " DROP INDEX ")
                 /\ ~d.hasChanges => st = <<>>

C24_Witness ==
    /\ sdiff.status = "generated"
    /\ ~sdiff.diff.createTable
    /\ Len(sdiff.diff.columnsToAdd) = 1
    /\ Len(sdiff.diff.columnsToModify) = 1
    /\ Len(sdiff.diff.columnsToRemove) = 1
    /\ Len(sdiff.diff.indexesToAdd) = 1
    /\ Len(sdiff.diff.indexesToRemove) = 1
    /\ Len(sdiff.statements) = 5

LacksList(schemaValue) ==
    schemaValue # Undefined /\ ("columns" \notin DOMAIN schemaValue \/ "indexes" \notin DOMAIN schemaValue)
MissingInput == IsMissing(sdiff.remoteSchema) \/ LacksList(sdiff.remoteSchema)
                    \/ LacksList(sdiff.localSchema)

\* C25: diffTableSchema never throws: when the remote schema is missing, or a
\* supplied schema lacks its column or index list, it returns a diff with
\* hasChanges=false, createTable=false and all change lists empty.
C25_NeverThrows ==
    /\ sdiff.status # "threw"
    /\ (sdiff.status \in {"returned", "generated"} /\ MissingInput) =>
          /\ ~sdiff.diff.hasChanges
          /\ ~sdiff.diff.createTable
          /\ sdiff.diff.columnsToAdd = <<>> /\ sdiff.diff.columnsToModify = <<>>
          /\ sdiff.diff.columnsToRemove = <<>>
          /\ sdiff.diff.indexesToAdd = <<>> /\ sdiff.diff.indexesToRemove = <<>>

Fields(columns) == {columns[i].Field : i \in 1..Len(columns)}
Names(list) == {list[i].name : i \in 1..Len(list)}
ColumnNamed(columns, name) == CHOOSE c \in {columns[i] : i \in 1..Len(columns)} : c.Field = name
Differs(c1, c2) == \E a \in {"Type", "Null", "Default", "Extra"} : c1[a] # c2[a]

\* C26: for a present local schema the three column lists are the remote names
\* absent from local, the local names absent from remote, and the names on both
\* sides whose type, nullability, default or extra attribute differs; they are
\* pairwise disjoint; hasChanges is true iff some column or index list is
\* non-empty; a schema diffed against itself gives hasChanges=false; with local
\* absent the diff has createTable=true and hasChanges=true.
C26_ColumnSets ==
    sdiff.status \in {"returned", "generated"} =>
        LET d == sdiff.diff
            r == sdiff.remoteSchema
            l == sdiff.localSchema
        IN  IF l = Undefined
            THEN d.createTable /\ d.hasChanges
            ELSE /\ ~d.createTable
                 /\ Names(d.columnsToAdd) = Fields(r.columns) \ Fields(l.columns)
                 /\ Len(d.columnsToAdd) = Cardinality(Names(d.columnsToAdd))
                 /\ Names(d.columnsToRemove) = Fields(l.columns) \ Fields(r.columns)
                 /\ Len(d.columnsToRemove) = Cardinality(Names(d.columnsToRemove))
                 /\ Names(d.columnsToModify) =
                        {n \in Fields(r.columns) \cap Fields(l.columns) :
                            Differs(ColumnNamed(r.columns, n), ColumnNamed(l.columns, n))}
                 /\ Len(d.columnsToModify) = Cardinality(Names(d.columnsToModify))
                 /\ Names(d.columnsToAdd) \cap Names(d.columnsToRemove) = {}
                 /\ Names(d.columnsToAdd) \cap Names(d.columnsToModify) = {}
                 /\ Names(d.columnsToRemove) \cap Names(d.columnsToModify) = {}
                 /\ d.hasChanges <=> \/ d.columnsToAdd # <<>> \/ d.columnsToModify # <<>>
                                     \/ d.columnsToRemove # <<>>
                                     \/ d.indexesToAdd # <<>> \/ d.indexesToRemove # <<>>
                 /\ r = l => ~d.hasChanges

C26_Witness ==
    /\ sdiff.status = "returned"
    /\ sdiff.localSchema # Undefined
    /\ Names(sdiff.diff.columnsToAdd) = {"at"}
    /\ Names(sdiff.diff.columnsToRemove) = {"note"}
    /\ Names(sdiff.diff.columnsToModify) = {"name"}
    /\ sdiff.diff.columnsToModify[1].remoteCol.Type = sdiff.diff.columnsToModify[1].localCol.Type
    /\ sdiff.diff.columnsToModify[1].remoteCol.Default = Str("x")

----------------------------------------------------------------------------
\* the LocalWriter calls of the data phase, in the order they were made
DataCalls == SelectSeq(calls, LAMBDA c : c.op \in DataOps)
BeginCalls == SelectSeq(calls, LAMBDA c : c.op = "beginTransaction")
EndsTransaction(c, t) == c.table = t /\ ((c.op = "commit" /\ c.ok) \/ c.op = "rollback")
\* the successful beginTransaction calls that no commit or rollback has followed
OpenTransactions ==
    {i \in 1..Len(DataCalls) :
        /\ DataCalls[i].op = "beginTransaction" /\ DataCalls[i].ok
        /\ \A k \in (i + 1)..Len(DataCalls) : ~EndsTransaction(DataCalls[k], DataCalls[i].table)}

RECURSIVE InsertSlices(_, _)
InsertSlices(rows, size) ==
    IF rows = <<>> THEN <<>>
    ELSE <<[op |-> "insertRows", data |-> SubSeq(rows, 1, Min(size, Len(rows)))]>>
            \o InsertSlices(SubSeq(rows, size + 1, Len(rows)), size)

\* the calls the claim describes for an incremental diff
ExpectedCalls(d, size) ==
    <<[op |-> "beginTransaction", data |-> <<>>]>>
    \o InsertSlices(d.toInsert, size)
    \o [i \in 1..Len(d.toUpdate) |-> [op |-> "updateRow", data |-> d.toUpdate[i].remote]]
    \o [i \in 1..Len(d.toDelete) |->
            [op |-> "deleteRow",
             data |-> [col \in {d.primaryKey[j] : j \in 1..Len(d.primaryKey)} |-> d.toDelete[i][col]]]]
    \o <<[op |-> "commit", data |-> <<>>]>>

IncrementalTables ==
    {dataDiffs[i].tableName : i \in {j \in 1..Len(dataDiffs) : ~dataDiffs[j].fullReplace}}
RECURSIVE RowsSent(_)
RowsSent(cs) == IF cs = <<>> THEN 0 ELSE Len(Head(cs).data) + RowsSent(Tail(cs))
Succeeded(cs, op) == SelectSeq(cs, LAMBDA c : c.op = op /\ c.ok)

\* C28: within one table's transaction applyIncrementalChanges issues the insert
\* batches (consecutive slices of toInsert, each of 1 to batchSize rows,
\* ceil(n/batchSize) calls), then one updateRow per toUpdate entry with the
\* remote row, then one deleteRow per toDelete row with only its primary-key
\* columns, then commit; a call that throws is followed by rollback alone; the
\* table's insert, update and delete counts equal the rows sent.
C28_IncrementalCallOrder ==
    \A t \in IncrementalTables :
        (CallsOf(t) # <<>> /\ CallsOf(t)[1].ok) =>
            LET cs == CallsOf(t)
                d == DiffOf(t)
                expected == ExpectedCalls(d, opts.batchSize)
                bad == {i \in 1..Len(cs) : ~cs[i].ok}
                last == IF bad = {} THEN Len(cs) ELSE CHOOSE i \in bad : \A j \in bad : i <= j
                n == Len(d.toInsert)
            IN  /\ last <= Len(expected)
                /\ \A i \in 1..last : cs[i].op = expected[i].op /\ cs[i].data = expected[i].data
                /\ \A i \in 1..Len(cs) :
                      cs[i].op = "insertRows" => Len(cs[i].data) \in 1..opts.batchSize
                /\ bad # {} => /\ Len(cs) <= last + 1
                               /\ Len(cs) = last + 1 => cs[Len(cs)].op = "rollback"
                /\ (bad = {} /\ Ended(t)) =>
                      /\ Len(cs) = Len(expected)
                      /\ Len(Succeeded(cs, "insertRows"))
                            = (n + opts.batchSize - 1) \div opts.batchSize
                      /\ ResultOf(t).inserts = n
                      /\ ResultOf(t).updates = Len(d.toUpdate)
                      /\ ResultOf(t).deletes = Len(d.toDelete)
                /\ Ended(t) =>
                      /\ ResultOf(t).inserts = RowsSent(Succeeded(cs, "insertRows"))
                      /\ ResultOf(t).updates = Len(Succeeded(cs, "updateRow"))
                      /\ ResultOf(t).deletes = Len(Succeeded(cs, "deleteRow"))

C28_Witness ==
    /\ xpc = "returned"
    /\ results.success
    /\ opts.batchSize = 2
    /\ Len(dataDiffs) >= 1
    /\ Len(dataDiffs[1].toInsert) = 3
    /\ Len(dataDiffs[1].toUpdate) = 1 /\ Len(dataDiffs[1].toDelete) = 1
    /\ Len(CallsOf("t1")) = 6
    /\ Len(CallsOf("t1")[3].data) = 1
    /\ DOMAIN CallsOf("t1")[5].data = {"id"}

----------------------------------------------------------------------------
RECURSIVE Concat(_)
Concat(chunks) == IF chunks = <<>> THEN <<>> ELSE Head(chunks) \o Concat(Tail(chunks))

\* q holds the rows of table, each once, in the order the store returns them
InTableOrder(q, table, orderBy) ==
    /\ Len(q) = Len(table)
    /\ \A i \in 1..Len(table) : Cardinality({j \in 1..Len(q) : q[j] = table[i]}) = 1
    /\ IF orderBy = "" THEN q = table
       ELSE \A i \in 1..(Len(q) - 1) : q[i][orderBy].n <= q[i + 1][orderBy].n

ReadSafe ==
    reader.status \in {"running", "done"} =>
        LET n == Len(reader.table)
            c == reader.chunkSize
            f == reader.fetched
        IN  /\ \A i \in 1..Len(reader.chunks) :
                  Len(reader.chunks[i]) \in 1..c
            /\ \A i \in 1..(Len(f) - 1) : f[i] = c
            /\ reader.status = "running" => \A i \in 1..Len(f) : f[i] = c
            /\ reader.status = "done" =>
                  /\ InTableOrder(Concat(reader.chunks), reader.table, reader.orderBy)
                  /\ f[Len(f)] < c
                  /\ Len(f) = (n \div c) + 1
                  /\ n % c = 0 => (f[Len(f)] = 0 /\ Len(reader.chunks) = Len(f) - 1)

\* C29: the chunked read of an unchanging table with chunk size >= 1
\* terminates, yields only non-empty chunks of at most chunkSize rows whose
\* concatenation is the table's rows in order, each row once, and stops after
\* the first fetch that returns fewer than chunkSize rows: one extra, empty
\* fetch when the row count is a multiple of chunkSize.
C29_ChunkedReadCoversTable ==
    /\ []ReadSafe
    /\ (reader.status = "running") ~> (reader.status = "done")

C29_Witness ==
    /\ reader.status = "done"
    /\ reader.loop = "localScan"
    /\ Len(reader.table) = 4
    /\ reader.chunkSize = 2
    /\ reader.orderBy = "id"
    /\ reader.table[1].id = Num(4)
    /\ reader.fetched = <<2, 2, 0>>
    /\ Len(reader.chunks) = 2

----------------------------------------------------------------------------
\* the row object as a function from its column names, and its properties in
\* the opposite order
AsRow(row) == [c \in {row[i].name : i \in 1..Len(row)} |-> valueOf(row, c)]
Reversed(row) == [i \in 1..Len(row) |-> row[Len(row) + 1 - i]]
IsNullish(v) == v = Null \/ v = Undefined
TextOf(v) == IF v.t = "date" THEN toISOString(v) ELSE String(v)
SameNormalized(v, w) ==
    IF IsNullish(v) \/ IsNullish(w) THEN IsNullish(v) /\ IsNullish(w)
    ELSE TextOf(v) = TextOf(w)

\* C30: rowsEqual(a, b) is true iff a and b have the same set of column names
\* and equal normalized values for every column (null and undefined normalize
\* to the same value, other values compare by their text form); it is
\* reflexive, symmetric and independent of the order of the columns in
\* either row.
C30_RowsEqual ==
    cmp.status = "returned" =>
        LET a == AsRow(cmp.a)
            b == AsRow(cmp.b)
        IN  /\ cmp.result <=> /\ DOMAIN a = DOMAIN b
                              /\ \A c \in DOMAIN a : SameNormalized(a[c], b[c])
            /\ cmp.a = cmp.b => cmp.result
            /\ cmp.swapped = cmp.result
            /\ rowsEqualObjects(Reversed(cmp.a), cmp.b) = cmp.result
            /\ rowsEqualObjects(cmp.a, Reversed(cmp.b)) = cmp.result
            /\ rowsEqual(a, b) = cmp.result

C30_Witness ==
    /\ cmp.status = "returned"
    /\ cmp.result
    /\ keysOf(cmp.a) = <<"name", "id">>
    /\ keysOf(cmp.b) = <<"id", "name">>
    /\ valueOf(cmp.a, "id") = Num(1) /\ valueOf(cmp.b, "id") = Str("1")
    /\ valueOf(cmp.a, "name") = Null /\ valueOf(cmp.b, "name") = Undefined

----------------------------------------------------------------------------
IndexNames(indexRows) == {indexRows[i].Key_name : i \in 1..Len(indexRows)}
\* what the rows of one index say: its columns in order and its uniqueness
IndexShape(indexRows, name) ==
    LET rows == SelectSeq(indexRows, LAMBDA r : r.Key_name = name)
    IN  [columns |-> [i \in 1..Len(rows) |-> rows[i].Column_name],
         unique |-> rows[1].Non_unique = 0]

\* C31: an index is in indexesToAdd iff its name exists in remote but not in
\* local, and in indexesToRemove iff its name exists in local but not in
\* remote, the index named PRIMARY being on neither list; two indexes of the
\* same name with different columns or uniqueness produce no entry.
C31_IndexesByName ==
    (sdiff.status \in {"returned", "generated"} /\ sdiff.localSchema # Undefined) =>
        LET d == sdiff.diff
            r == IndexNames(sdiff.remoteSchema.indexes)
            l == IndexNames(sdiff.localSchema.indexes)
        IN  /\ Names(d.indexesToAdd) = (r \ l) \ {"PRIMARY"}
            /\ Names(d.indexesToRemove) = (l \ r) \ {"PRIMARY"}
            /\ Len(d.indexesToAdd) = Cardinality(Names(d.indexesToAdd))
            /\ Len(d.indexesToRemove) = Cardinality(Names(d.indexesToRemove))
            /\ \A i \in 1..Len(d.indexesToAdd) :
                  /\ d.indexesToAdd[i].columns
                        = IndexShape(sdiff.remoteSchema.indexes, d.indexesToAdd[i].name).columns
                  /\ d.indexesToAdd[i].unique
                        = IndexShape(sdiff.remoteSchema.indexes, d.indexesToAdd[i].name).unique

C31_Witness ==
    /\ sdiff.status = "returned"
    /\ sdiff.localSchema # Undefined
    /\ IndexNames(sdiff.remoteSchema.indexes) = {"by_name"}
    /\ IndexNames(sdiff.localSchema.indexes) = {"PRIMARY", "by_name", "by_note"}
    /\ IndexShape(sdiff.remoteSchema.indexes, "by_name")
          # IndexShape(sdiff.localSchema.indexes, "by_name")
    /\ sdiff.diff.indexesToAdd = <<>>
    /\ sdiff.diff.indexesToRemove = <<[name |-> "by_note"]>>

----------------------------------------------------------------------------
\* the rows that were in remote and in local, unchanged, from the start of the
\* diff to its end: only the key of NewRemoteRow is ever inserted, so a row of
\* another key that is in remote at the end was there all the time
StableRows ==
    {r \in {remote[i] : i \in 1..Len(remote)} :
        r.id # NewRemoteRow.id /\ \E j \in 1..Len(local[T1]) : local[T1][j] = r}
Occurrences(q, x) == Cardinality({i \in 1..Len(q) : q[i] = x})

\* C32: while other clients insert or delete remote rows between two chunk
\* fetches of a streaming diff, a row that stays unchanged in remote and in
\* local is reported neither in toInsert nor in toDelete, and no remote row is
\* reported twice.
C32_StableRowsNotReported ==
    (strategy = "streamingTableDiff" /\ pc = "done") =>
        /\ \A r \in StableRows :
              Occurrences(diff.toInsert, r) = 0 /\ Occurrences(diff.toDelete, r) = 0
        /\ \A i \in 1..Len(diff.toInsert) : Occurrences(diff.toInsert, diff.toInsert[i]) = 1

\* C36: when the remote reader has no row-count primitive, stats.remoteRows of
\* the streaming diff is the number of remote rows read during the pass.
C36_RemoteRowsCounted ==
    (strategy = "streamingTableDiff" /\ pc \in {"streamLocal", "done"} /\ ~HasRowCount) =>
        diff.stats.remoteRows = Len(remote)

----------------------------------------------------------------------------
\* the table records of applyDataChanges whose helper returned: the table's
\* transaction was committed
Committed(ts) == SelectSeq(ts, LAMBDA tr : tr.errors = <<>>)
RECURSIVE SumOf(_, _)
SumOf(ts, field) == IF ts = <<>> THEN 0 ELSE Head(ts)[field] + SumOf(Tail(ts), field)

\* C33: after applyDataChanges has returned, the insert, update and delete
\* counts of every table and the totals count rows of committed tables only: a
\* table whose transaction was rolled back contributes zero to each of them.
C33_CountsOnlyCommitted ==
    (xpc = "returned" /\ results.data.ran) =>
        LET ts == results.data.tables
        IN  /\ \A i \in 1..Len(ts) :
                  ts[i].errors # <<>> =>
                      ts[i].inserts = 0 /\ ts[i].updates = 0 /\ ts[i].deletes = 0
            /\ results.data.totalInserts = SumOf(Committed(ts), "inserts")
            /\ results.data.totalUpdates = SumOf(Committed(ts), "updates")
            /\ results.data.totalDeletes = SumOf(Committed(ts), "deletes")

----------------------------------------------------------------------------
\* C34: toInsert of a diff returned by diffTableData for a primary-keyed table
\* holds no row whose primary key is the key of a row of the local table, also
\* when the incremental strategy falls back to fullPrimaryKeyDiff.
C34_InsertsAreNewKeys ==
    (pc = "done" /\ round = 1 /\ xpc = "idle" /\ diff.primaryKey # <<>> /\ ~diff.fullReplace) =>
        \A i \in 1..Len(diff.toInsert) : \A j \in 1..Len(local[T1]) :
            KeyOf(diff.toInsert[i], diff.primaryKey) # KeyOf(local[T1][j], diff.primaryKey)

\* the rows the diff of the table compares
ComparedRows == {remote[i] : i \in 1..Len(remote)} \cup {local[T1][j] : j \in 1..Len(local[T1])}

\* C35: two rows whose tuples of key-column values differ never have the same
\* primary-key string.
C35_KeyStringInjective ==
    (pc = "done" /\ round = 1 /\ xpc = "idle" /\ diff.primaryKey # <<>>) =>
        \A r1, r2 \in ComparedRows :
            KeyOf(r1, diff.primaryKey) # KeyOf(r2, diff.primaryKey) =>
                buildPrimaryKeyValue(r1, diff.primaryKey) # buildPrimaryKeyValue(r2, diff.primaryKey)

----------------------------------------------------------------------------
\* the columns whose normalized values differ between two rows
DifferingColumns(localRow, remoteRow) ==
    {c \in DOMAIN localRow \cup DOMAIN remoteRow :
        normalizeValue(Get(localRow, c)) # normalizeValue(Get(remoteRow, c))}

\* C37: every entry of toUpdate has a non-empty changes list that names each
\* column whose normalized value differs between the local and the remote row.
C37_UpdatesNameChanges ==
    pc = "done" =>
        \A i \in 1..Len(diff.toUpdate) :
            LET u == diff.toUpdate[i]
            IN  /\ u.changes # <<>>
                /\ \A c \in DifferingColumns(u.local, u.remote) :
                      \E k \in 1..Len(u.changes) : u.changes[k].column = c

----------------------------------------------------------------------------
\* no two rows of the table have the same tuple of key values
UniqueKeys(rows, pk) ==
    \A i, j \in 1..Len(rows) : i # j => KeyOf(rows[i], pk) # KeyOf(rows[j], pk)

SameChanges(d1, d2) ==
    /\ Range(d1.toInsert) = Range(d2.toInsert)
    /\ Range(d1.toUpdate) = Range(d2.toUpdate)
    /\ Range(d1.toDelete) = Range(d2.toDelete)
    /\ d1.stats.inserts = d2.stats.inserts
    /\ d1.stats.updates = d2.stats.updates
    /\ d1.stats.deletes = d2.stats.deletes

\* C38: for remote and local tables with unique keys and every chunk size, the
\* streaming diff and the in-memory diff return the same toInsert, toUpdate
\* and toDelete sets and the same insert, update and delete counts.
C38_StreamingEqualsInMemory ==
    (round = 2 /\ pc = "done" /\ strategy = "inMemoryTableDiff"
        /\ UniqueKeys(remote, diff.primaryKey) /\ UniqueKeys(local[T1], diff.primaryKey)) =>
        SameChanges(firstDiff, diff)

----------------------------------------------------------------------------
\* the statements of the approved schema diffs that have changes, in order
RECURSIVE StatementsFrom(_)
StatementsFrom(i) ==
    IF i > Len(schemaDiffs) THEN <<>>
    ELSE LET d == schemaDiffs[i]
         IN  (IF d.hasChanges
              THEN [k \in 1..Len(d.sql) |-> [table |-> d.tableName, sql |-> d.sql[k]]]
              ELSE <<>>) \o StatementsFrom(i + 1)
Statements == StatementsFrom(1)
SchemaCalls == SelectSeq(calls, LAMBDA c : c.op = "executeSchema")
Attempt(c) == [table |-> c.table, sql |-> c.arg]
Entry(e) == [table |-> e.table, sql |-> e.sql]

\* C39: applySchemaChanges hands every statement of every approved diff with
\* changes to executeSchema exactly once and in order, also after a statement
\* has failed; when it has returned, applied and failed together hold every
\* statement and success is false iff failed is not empty.
C39_EveryStatementOnce ==
    /\ Len(SchemaCalls) <= Len(Statements)
    /\ \A i \in 1..Len(SchemaCalls) : Attempt(SchemaCalls[i]) = Statements[i]
    /\ (results.schema.ran /\ xpc # "schema") =>
          LET sch == results.schema
          IN  /\ Len(SchemaCalls) = Len(Statements)
              /\ Len(sch.applied) + Len(sch.failed) = Len(Statements)
              /\ MapSeq(sch.applied, Entry) =
                    MapSeq(SelectSeq(SchemaCalls, LAMBDA c : c.ok), Attempt)
              /\ MapSeq(sch.failed, Entry) =
                    MapSeq(SelectSeq(SchemaCalls, LAMBDA c : ~c.ok), Attempt)
              /\ (~sch.success) <=> (sch.failed # <<>>)

C39_Witness ==
    /\ xpc = "returned"
    /\ Len(Statements) = 2
    /\ Len(SchemaCalls) = 2
    /\ ~SchemaCalls[1].ok
    /\ SchemaCalls[2].ok
    /\ SchemaCalls[1].table # SchemaCalls[2].table
    /\ Len(results.schema.applied) = 1
    /\ Len(results.schema.failed) = 1

----------------------------------------------------------------------------
Indexes(entries) == [k \in 1..Len(entries) |-> entries[k].index]
Ascending(q) == \A k \in 1..(Len(q) - 1) : q[k] < q[k + 1]

BreakerResult ==
    BreakerStarted =>
        LET s == Indexes(breaker.successes)
            f == Indexes(breaker.failures)
        IN  /\ Range(s) \cap Range(f) = {}
            /\ Ascending(s) /\ Ascending(f)
            /\ Range(s) = {p - 1 : p \in {q \in 1..Invoked : ~FailedAt(q)}}
            /\ Range(f) = {p - 1 : p \in {q \in 1..Invoked : FailedAt(q)}}
            /\ breaker.circuitBroken => breaker.status = "returned"
            /\ (breaker.status = "returned" /\ ~breaker.circuitBroken) =>
                  /\ Invoked = Len(breaker.operations)
                  /\ Len(s) + Len(f) = Len(breaker.operations)

\* C40: in the result of executeWithCircuitBreaker every operation index is in
\* at most one of successes and failures, the indexes of each list ascend, no
\* operation is invoked once circuitBroken is set, and when circuitBroken is
\* false every operation was run: successes and failures together are as long
\* as the list of operations.
C40_BreakerResult ==
    /\ []BreakerResult
    /\ [][(BreakerStarted /\ breaker.circuitBroken) => breaker'.log = breaker.log]_vars

C40_Witness ==
    /\ BreakerStarted
    /\ breaker.status = "returned"
    /\ ~breaker.circuitBroken
    /\ Len(breaker.operations) = 4
    /\ Indexes(breaker.successes) = <<1, 3>>
    /\ Indexes(breaker.failures) = <<0, 2>>

====
